---- MODULE Spec2Model ----
(***************************************************************************)
(* Scheduler and request dispatch of the LTFS Data Management server.      *)
(*                                                                         *)
(* The inventory (drives, cartridges, pools), the request and job queues,  *)
(* the scheduler thread (Scheduler::run and its resAvail* helpers), the    *)
(* tape movers and file-operation workers it dispatches, the stop handler  *)
(* and the migration / selective-recall connection handlers.               *)
(***************************************************************************)
EXTENDS Integers, Sequences, FiniteSets, TLC

(***************************************************************************)
(* Bounds of the model.                                                    *)
(***************************************************************************)
NumDrives == 2
NumTapes == 2
MaxClientReqs == 2
MaxMoves == 2
PassBound == 2
MaxLen == 7
MaxBatchLen == 4
MaxBatches == 2
MaxSent == 5
MaxStopPolls == 2
NumConns == 2
MaxHandshakes == 3
MaxRows == 2

Drives == 1..NumDrives
Tapes == 1..NumTapes
Conns == 1..NumConns

(***************************************************************************)
(* Program constants.                                                      *)
(***************************************************************************)
\* DataBase::operation, in the priority order of the request SELECT
TRARECALL == 0
SELRECALL == 1
MIGRATION == 2
FORMAT == 3
CHECK == 4
MOVE == 5
MOUNT == 6
UNMOUNT == 7
NOOP == 8

\* Const::UNSET
UNSET == -1

\* the empty string as a drive id or tape id
EmptyId == 0

\* Error:: codes
LTFSDM_OK == 0
LTFSDM_COMM_ERROR == 1001
LTFSDM_WRONG_POOLNUM == 1011
LTFSDM_NOT_ALL_POOLS_EXIST == 1012
\* used by the handlers but not among the codes of errors.h: some other non-zero code
LTFSDM_TERMINATING == 1014

\* LTFSDMCartridge states
TAPE_UNMOUNTED == "UNMOUNTED"
TAPE_MOUNTED == "MOUNTED"
TAPE_MOVING == "MOVING"
TAPE_INUSE == "INUSE"
TAPE_INVALID == "INVALID"
TAPE_UNKNOWN == "UNKNOWN"

\* DataBase::req_state
REQ_NEW == "NEW"
REQ_INPROGRESS == "INPROGRESS"
REQ_COMPLETED == "COMPLETED"

\* FsObj::file_state
RESIDENT == "RESIDENT"

TapeMoveOps == {MOUNT, MOVE, UNMOUNT}
RecallOps == {TRARECALL, SELRECALL}
TapeHandlerOps == {FORMAT, CHECK}

\* names of the tape storage pools that exist
PoolNames == {"a", "b", "c", "d"}

\* sizes (bytes) of the files clients migrate
FileSizes == {1024 * 1024}

\* the file names clients send; the empty name ends the stream of objects
FileNames == {"/m/a", "/m/b"}
EndOfObjects == ""

\* the characters of a pools string, and the delimiter std::getline splits at
Delim == ","
Chars == PoolNames \cup {Delim}

MinOf(S) == CHOOSE x \in S : \A y \in S : x <= y

(***************************************************************************)
(* State.                                                                  *)
(***************************************************************************)
VARIABLES
    drive,          \* drive id -> [busy, moveReqNum, moveReqPool, toUnblock]
    cart,           \* tape id -> [state, slot, requested, remaining_cap]
    pools,          \* pool name -> set of tape ids
    reqQ,           \* REQUEST_QUEUE: set of rows
    jobQ,           \* JOB_QUEUE: set of rows
    subs,           \* tasks enqueued on Scheduler::subs, not yet finished
    globalReqNumber,
    schedPc,        \* "wait" | "pass" | "done" | "aborted"
    schedTodo,      \* rows the running SELECT still returns
    notified,       \* a notify on Scheduler::cond is pending
    terminate,
    forcedTerminate,
    finishTerminate,
    stop,           \* stop handler: [pc, numreqs, forced, finish, success, sigusr1,
                    \*   keyOk, replies, notifies, signals]
    conn,           \* mig / selRec connection handler
    waited,         \* history: passes in which a recall found its tape held by a migration
    run,            \* connection -> [pc, localReqNumber] of its MessageParser::run
    termmtx,        \* Server::termmtx: the connection that holds it, or NoConn
    returned,       \* history: the reqNum responses sent, in order, as <<connection, number>>
    info,           \* an info handler: [pc, kind, keyOk, rows, todo, failed, resp, out]
    start,          \* the start command: [pc, retry, success, attempts, listening, result]
    sync            \* Scheduler::mtx, LTFSDMInventory::mtx and the threads that use them

invVars == <<drive, cart, pools>>
schedVars == <<schedPc, schedTodo>>
termVars == <<terminate, forcedTerminate, finishTerminate>>
connVars == <<run, termmtx, returned, sync>>
vars == <<drive, cart, pools, reqQ, jobQ, subs, globalReqNumber, schedPc,
          schedTodo, notified, terminate, forcedTerminate, finishTerminate,
          stop, conn, waited, run, termmtx, returned, info, start, sync>>

\* the variables of the server's inventory, queues, scheduler and handlers
serverVars == <<drive, cart, pools, reqQ, jobQ, subs, schedPc, schedTodo, notified,
                terminate, forcedTerminate, finishTerminate, stop, conn, waited, sync>>

\* slot of a drive, and the storage slot a cartridge rests in when unmounted
DriveSlot(d) == d
HomeSlot(t) == NumDrives + t


(***************************************************************************)
(* Scheduler helpers (Scheduler.cc).  Each takes the drive and cartridge   *)
(* tables and the scheduler's members it reads (op, reqNum, pool, tapeId,   *)
(* driveId, mountTarget) and yields the tables it leaves behind.           *)
(***************************************************************************)

\* a cartridge is MOUNTED in the slot of drive d
HasMounted(crt, d) ==
    \E t \in Tapes : crt[t].slot = DriveSlot(d) /\ crt[t].state = TAPE_MOUNTED

\* the first cartridge MOUNTED in the slot of drive d
MountedIn(crt, d) ==
    MinOf({t \in Tapes : crt[t].slot = DriveSlot(d) /\ crt[t].state = TAPE_MOUNTED})

\* remaining capacity is kept in megabytes, file sizes in bytes
HasRoom(crt, t, minFileSize) == 1024 * 1024 * crt[t].remaining_cap >= minFileSize

makeUse(drv, crt, driveId, tapeId) ==
    [drive |-> [drv EXCEPT ![driveId].busy = TRUE],
     cart  |-> [crt EXCEPT ![tapeId].state = TAPE_INUSE]]

\* driveIsUsable without the test of drive->isBusy()
driveIsUsableIgnoresBusy(drv, d, reqNum, pool) ==
    LET rn == drv[d].moveReqNum
        p  == drv[d].moveReqPool
    IN  ~(rn # UNSET /\ ~(rn = reqNum /\ p = pool))

driveIsUsable(drv, d, reqNum, pool) ==
    LET rn == drv[d].moveReqNum
        p  == drv[d].moveReqPool
    IN  /\ ~drv[d].busy
        /\ ~(rn # UNSET /\ ~(rn = reqNum /\ p = pool))

\* LTFSDMInventory::requestExists: some drive has a motion pending for the request
requestExists(drv, reqNum, pool) ==
    \E d \in Drives : drv[d].moveReqNum = reqNum /\ drv[d].moveReqPool = pool

\* a TapeMover::addRequest task as enqueued on Scheduler::subs
AddTask(driveId, tapeId, top) ==
    [kind |-> "add", op |-> top, reqNum |-> UNSET, replNum |-> UNSET, pool |-> "",
     driveId |-> driveId, tapeId |-> tapeId, phase |-> "queued"]

\* moveTape in which the requestExists test is left out
moveTapeNoExistsCheck(drv, op, reqNum, pool, driveId, tapeId, top) ==
    IF op \in TapeMoveOps
    THEN [drive |-> drv, enq |-> {}]
    ELSE [drive |-> [drv EXCEPT ![driveId].moveReqNum = reqNum,
                                ![driveId].moveReqPool = pool],
          enq   |-> {AddTask(driveId, tapeId, top)}]

\* moveTape that also marks the drive busy
moveTapeSetBusy(drv, op, reqNum, pool, driveId, tapeId, top) ==
    IF op \in TapeMoveOps
    THEN [drive |-> drv, enq |-> {}]
    ELSE IF requestExists(drv, reqNum, pool)
    THEN [drive |-> drv, enq |-> {}]
    ELSE [drive |-> [drv EXCEPT ![driveId].moveReqNum = reqNum,
                                ![driveId].moveReqPool = pool,
                                ![driveId].busy = TRUE],
          enq   |-> {AddTask(driveId, tapeId, top)}]

moveTape(drv, op, reqNum, pool, driveId, tapeId, top) ==
    IF op \in TapeMoveOps
    THEN [drive |-> drv, enq |-> {}]
    ELSE IF requestExists(drv, reqNum, pool)
    THEN [drive |-> drv, enq |-> {}]
    ELSE [drive |-> [drv EXCEPT ![driveId].moveReqNum = reqNum,
                                ![driveId].moveReqPool = pool],
          enq   |-> {AddTask(driveId, tapeId, top)}]

\* what a resAvail* call returns and leaves behind
Res(ok, drv, crt, enq, driveId, tapeId) ==
    [ok |-> ok, drive |-> drv, cart |-> crt, enq |-> enq,
     driveId |-> driveId, tapeId |-> tapeId]

\* usable drives with no cartridge MOUNTED in their slot
FreeDrives(drv, crt, reqNum, pool) ==
    {d \in Drives : driveIsUsable(drv, d, reqNum, pool) /\ ~HasMounted(crt, d)}

\* usable drives with a cartridge MOUNTED in their slot
LoadedDrives(drv, crt, reqNum, pool) ==
    {d \in Drives : driveIsUsable(drv, d, reqNum, pool) /\ HasMounted(crt, d)}

\* poolResAvail without the search for an empty drive to mount a pool cartridge
poolResAvailNoMount(drv, crt, pl, op, reqNum, pool, driveId, tapeId, mountTarget, minFileSize) ==
    LET members == pl[pool] \cap Tapes
        ready == {t \in members : /\ crt[t].state = TAPE_MOUNTED
                                  /\ HasRoom(crt, t, minFileSize)
                                  /\ \E d \in Drives : DriveSlot(d) = crt[t].slot}
    IN  IF ready # {}
        THEN LET t == MinOf(ready)
                 d == MinOf({x \in Drives : DriveSlot(x) = crt[t].slot})
                 u == makeUse(drv, crt, d, t)
             IN  Res(TRUE, u.drive, u.cart, {}, d, t)
        ELSE Res(FALSE, drv, crt, {}, driveId, tapeId)

poolResAvail(drv, crt, pl, op, reqNum, pool, driveId, tapeId, mountTarget, minFileSize) ==
    LET members == pl[pool] \cap Tapes
        ready == {t \in members : /\ crt[t].state = TAPE_MOUNTED
                                  /\ HasRoom(crt, t, minFileSize)
                                  /\ \E d \in Drives : DriveSlot(d) = crt[t].slot}
        unmountedExists == \E t \in members : crt[t].state = TAPE_UNMOUNTED
        free == FreeDrives(drv, crt, reqNum, pool)
        cand == {t \in members : /\ crt[t].state = TAPE_UNMOUNTED
                                 /\ HasRoom(crt, t, minFileSize)}
        loaded == LoadedDrives(drv, crt, reqNum, pool)
    IN  IF ready # {}
        THEN LET t == MinOf(ready)
                 d == MinOf({x \in Drives : DriveSlot(x) = crt[t].slot})
                 u == makeUse(drv, crt, d, t)
             IN  Res(TRUE, u.drive, u.cart, {}, d, t)
        ELSE IF ~unmountedExists
        THEN Res(FALSE, drv, crt, {}, driveId, tapeId)
        ELSE IF free # {} /\ cand # {}
        THEN LET m == moveTape(drv, op, reqNum, pool, MinOf(free), MinOf(cand), mountTarget)
             IN  Res(FALSE, m.drive, crt, m.enq, driveId, tapeId)
        ELSE IF \E d \in Drives : drv[d].moveReqNum = reqNum /\ drv[d].moveReqPool = pool
        THEN Res(FALSE, drv, crt, {}, driveId, tapeId)
        ELSE IF loaded # {}
        THEN LET d == MinOf(loaded)
                 m == moveTape(drv, op, reqNum, pool, d, MountedIn(crt, d), UNMOUNT)
             IN  Res(FALSE, m.drive, crt, m.enq, driveId, tapeId)
        ELSE Res(FALSE, drv, crt, {}, driveId, tapeId)

\* tapeResAvail whose suspend loop compares with <= instead of <
tapeResAvailNotStrict(drv, crt, op, reqNum, pool, driveId, tapeId, mountTarget) ==
    LET st == crt[tapeId].state
        inSlot == {d \in Drives : DriveSlot(d) = crt[tapeId].slot}
        free == FreeDrives(drv, crt, reqNum, pool)
        loaded == LoadedDrives(drv, crt, reqNum, pool)
        lower == {d \in Drives : op <= drv[d].toUnblock}
    IN  IF st = TAPE_MOVING \/ st = TAPE_INUSE
        THEN Res(FALSE, drv, crt, {}, driveId, tapeId)
        ELSE IF st = TAPE_MOUNTED
        THEN IF inSlot # {}
             THEN LET d == MinOf(inSlot)
                      u == makeUse(drv, crt, d, tapeId)
                  IN  Res(TRUE, u.drive, u.cart, {}, d, tapeId)
             ELSE Res(TRUE, drv, crt, {}, driveId, tapeId)
        ELSE IF free # {} /\ st = TAPE_UNMOUNTED
        THEN LET m == moveTape(drv, op, reqNum, pool, MinOf(free), tapeId, mountTarget)
             IN  Res(FALSE, m.drive, crt, m.enq, driveId, tapeId)
        ELSE IF loaded # {}
        THEN LET d == MinOf(loaded)
                 m == moveTape(drv, op, reqNum, pool, d, MountedIn(crt, d), UNMOUNT)
             IN  Res(FALSE, m.drive, [crt EXCEPT ![tapeId].requested = FALSE],
                     m.enq, driveId, tapeId)
        ELSE IF crt[tapeId].requested
        THEN Res(FALSE, drv, crt, {}, driveId, tapeId)
        ELSE IF lower # {}
        THEN Res(FALSE, [drv EXCEPT ![MinOf(lower)].toUnblock = op],
                 [crt EXCEPT ![tapeId].requested = TRUE], {}, driveId, tapeId)
        ELSE Res(FALSE, drv, crt, {}, driveId, tapeId)

tapeResAvail(drv, crt, op, reqNum, pool, driveId, tapeId, mountTarget) ==
    LET st == crt[tapeId].state
        inSlot == {d \in Drives : DriveSlot(d) = crt[tapeId].slot}
        free == FreeDrives(drv, crt, reqNum, pool)
        loaded == LoadedDrives(drv, crt, reqNum, pool)
        lower == {d \in Drives : op < drv[d].toUnblock}
    IN  IF st = TAPE_MOVING \/ st = TAPE_INUSE
        THEN Res(FALSE, drv, crt, {}, driveId, tapeId)
        ELSE IF st = TAPE_MOUNTED
        THEN IF inSlot # {}
             THEN LET d == MinOf(inSlot)
                      u == makeUse(drv, crt, d, tapeId)
                  IN  Res(TRUE, u.drive, u.cart, {}, d, tapeId)
             ELSE Res(TRUE, drv, crt, {}, driveId, tapeId)
        ELSE IF free # {} /\ st = TAPE_UNMOUNTED
        THEN LET m == moveTape(drv, op, reqNum, pool, MinOf(free), tapeId, mountTarget)
             IN  Res(FALSE, m.drive, crt, m.enq, driveId, tapeId)
        ELSE IF loaded # {}
        THEN LET d == MinOf(loaded)
                 m == moveTape(drv, op, reqNum, pool, d, MountedIn(crt, d), UNMOUNT)
             IN  Res(FALSE, m.drive, [crt EXCEPT ![tapeId].requested = FALSE],
                     m.enq, driveId, tapeId)
        ELSE IF crt[tapeId].requested
        THEN Res(FALSE, drv, crt, {}, driveId, tapeId)
        ELSE IF lower # {}
        THEN Res(FALSE, [drv EXCEPT ![MinOf(lower)].toUnblock = op],
                 [crt EXCEPT ![tapeId].requested = TRUE], {}, driveId, tapeId)
        ELSE Res(FALSE, drv, crt, {}, driveId, tapeId)

\* resAvailTapeMove without its tests of the drive and of the cartridges in
\* the drive's slot
resAvailTapeMoveUntested(drv, crt, op, driveId, tapeId) ==
    LET u == makeUse(drv, crt, driveId, tapeId)
    IN  Res(TRUE, u.drive, u.cart, {}, driveId, tapeId)

resAvailTapeMove(drv, crt, op, driveId, tapeId) ==
    IF drv[driveId].busy
    THEN Res(FALSE, drv, crt, {}, driveId, tapeId)
    ELSE IF (op = MOUNT \/ op = MOVE) /\ HasMounted(crt, driveId)
    THEN Res(FALSE, drv, crt, {}, driveId, tapeId)
    ELSE IF ~(op = MOUNT \/ op = MOVE)
            /\ (DriveSlot(driveId) # crt[tapeId].slot \/ crt[tapeId].state # TAPE_MOUNTED)
    THEN Res(FALSE, drv, crt, {}, driveId, tapeId)
    ELSE LET u == makeUse(drv, crt, driveId, tapeId)
         IN  Res(TRUE, u.drive, u.cart, {}, driveId, tapeId)

resAvail(drv, crt, pl, op, reqNum, pool, driveId, tapeId, mountTarget, minFileSize) ==
    IF op \in TapeMoveOps
    THEN resAvailTapeMove(drv, crt, op, driveId, tapeId)
    ELSE IF op = MIGRATION /\ tapeId = EmptyId
    THEN poolResAvail(drv, crt, pl, op, reqNum, pool, driveId, tapeId, mountTarget, minFileSize)
    ELSE tapeResAvail(drv, crt, op, reqNum, pool, driveId, tapeId, mountTarget)

\* assert(drive->isBusy() == false) in tapeResAvail and poolResAvail: the drive in
\* the slot of the MOUNTED cartridge that is about to be used is busy
assertFails(drv, crt, pl, op, pool, tapeId, minFileSize) ==
    LET ready == {t \in pl[pool] \cap Tapes : /\ crt[t].state = TAPE_MOUNTED
                                              /\ HasRoom(crt, t, minFileSize)
                                              /\ \E d \in Drives : DriveSlot(d) = crt[t].slot}
        slotOf(t) == {d \in Drives : DriveSlot(d) = crt[t].slot}
    IN  IF op \in TapeMoveOps
        THEN FALSE
        ELSE IF op = MIGRATION /\ tapeId = EmptyId
        THEN ready # {} /\ drv[MinOf(slotOf(MinOf(ready)))].busy
        ELSE /\ crt[tapeId].state = TAPE_MOUNTED
             /\ slotOf(tapeId) # {}
             /\ drv[MinOf(slotOf(tapeId))].busy

\* SELECT MIN(FILE_SIZE) over the RESIDENT jobs of (reqNum, replNum); 0 when none
smallestMigJob(jq, reqNum, replNum) ==
    LET sizes == {j.fileSize : j \in {x \in jq : /\ x.reqNum = reqNum
                                                 /\ x.replNum = replNum
                                                 /\ x.fileState = RESIDENT}}
    IN  IF sizes = {} THEN 0 ELSE MinOf(sizes)


(***************************************************************************)
(* Request queue rows and the tasks on Scheduler::subs.                    *)
(***************************************************************************)
Row(op, reqNum, numRepl, replNum, pool, tapeId, driveId) ==
    [op |-> op, reqNum |-> reqNum, numRepl |-> numRepl, replNum |-> replNum,
     pool |-> pool, tapeId |-> tapeId, driveId |-> driveId, state |-> REQ_NEW]

ExecTask(op, reqNum, replNum, pool, driveId, tapeId) ==
    [kind |-> "exec", op |-> op, reqNum |-> reqNum, replNum |-> replNum, pool |-> pool,
     driveId |-> driveId, tapeId |-> tapeId, phase |-> "start"]

\* ORDER BY OPERATION, REQ_NUM
Before(r1, r2) == r1.op < r2.op \/ (r1.op = r2.op /\ r1.reqNum <= r2.reqNum)

\* Scheduler::invoke: takes Scheduler::mtx, which the scheduler holds during a
\* pass and releases in cond.wait, so the notification reaches a waiting scheduler
invoke == notified' = TRUE

\* request numbers handed to clients, and tape motions queued so far
ClientReqNums == {r.reqNum : r \in {x \in reqQ : x.op \notin TapeMoveOps}}
MoveRows == {r \in reqQ : r.op \in TapeMoveOps}

\* UPDATE_REQUEST << state << reqNum
UpdateRequest(rq, state, reqNum) ==
    {IF r.reqNum = reqNum THEN [r EXCEPT !.state = state] ELSE r : r \in rq}

\* UPDATE_MIG_REQUEST << state << tapeId << reqNum << replNum << pool
UpdateMigRequest(rq, state, tapeId, reqNum, replNum, pool) ==
    {IF r.reqNum = reqNum /\ r.replNum = replNum /\ r.pool = pool
     THEN [r EXCEPT !.state = state, !.tapeId = tapeId] ELSE r : r \in rq}

\* UPDATE_REC_REQUEST << state << reqNum << tapeId
UpdateRecRequest(rq, state, reqNum, tapeId) ==
    {IF r.reqNum = reqNum /\ r.tapeId = tapeId
     THEN [r EXCEPT !.state = state] ELSE r : r \in rq}

\* the UPDATE statement the scheduler issues for a row it dispatches
UpdateDispatched(rq, op, reqNum, replNum, pool, tapeId) ==
    IF op \in TapeMoveOps \cup TapeHandlerOps
    THEN UpdateRequest(rq, REQ_INPROGRESS, reqNum)
    ELSE IF op = MIGRATION
    THEN UpdateMigRequest(rq, REQ_INPROGRESS, tapeId, reqNum, replNum, pool)
    ELSE IF op \in RecallOps
    THEN UpdateRecRequest(rq, REQ_INPROGRESS, reqNum, tapeId)
    ELSE rq

(***************************************************************************)
(* Initial state: the server has started, the scheduler waits on its       *)
(* condition variable, each drive is empty or holds one MOUNTED cartridge.  *)
(***************************************************************************)
PoolOf(t) == IF t <= 2 THEN "a" ELSE "b"

InitPools == [p \in PoolNames |-> {t \in Tapes : PoolOf(t) = p}]

\* what the inventory finds at start: nothing mounted, or one cartridge in drive 1
Placements ==
    {[t \in Tapes |-> EmptyId]} \cup
    {[t \in Tapes |-> IF t = m THEN 1 ELSE EmptyId] : m \in Tapes}

\* remaining capacity (megabytes) found on each cartridge: every other one is full
InitCap(t) == t % 2

\* keyOk: the key of the message read last is the server's; replies: the success
\* values sent so far; notifies, signals: Scheduler::cond notifications and
\* SIGUSR1 raised by the handler; reads: the stop requests the handler has read;
\* cpc, creqs, cread: the stop client at the other end of the connection, the
\* stop requests it has sent and the replies it has read
InitStop == [pc |-> "idle", numreqs |-> 0, forced |-> FALSE, finish |-> FALSE,
             success |-> FALSE, sigusr1 |-> FALSE, keyOk |-> TRUE, replies |-> <<>>,
             notifies |-> 0, signals |-> 0, reads |-> 0,
             cpc |-> "send", creqs |-> 0, cread |-> 0]

\* a connection handler before its first message; keyOk: the key of the message
\* read last is the server's; sent: the responses sent so far; acks: the
\* acknowledgements getObjects has sent; left: how getObjects returned; commFailed: a
\* recv or send of getObjects has thrown
InitConn ==
    [pc |-> "idle", kind |-> "none", msg |-> <<>>, error |-> LTFSDM_OK, reqNum |-> UNSET,
     pools |-> {}, numRepl |-> 0, built |-> FALSE, replied |-> FALSE,
     batch |-> <<>>, j |-> 0, batches |-> 0, cont |-> TRUE, success |-> TRUE,
     dupSeen |-> FALSE, acked |-> "none", closed |-> FALSE, added |-> FALSE,
     keyOk |-> TRUE, sent |-> 0, commFailed |-> FALSE,
     acks |-> 0, left |-> "none"]

\* no connection holds Server::termmtx
NoConn == 0

\* MessageParser::run of a connection before it has taken Server::termmtx
InitRun == [c \in Conns |-> [pc |-> "start", localReqNumber |-> UNSET,
                              forced |-> FALSE, finish |-> FALSE]]

\* an info handler before its request: resp is the response message of the
\* connection's command object, out the responses sent
InitInfo == [pc |-> "idle", kind |-> "none", keyOk |-> TRUE, rows |-> 0, todo |-> 0,
             failed |-> FALSE, resp |-> <<>>, out |-> <<>>]

\* the start command before StartCommand::doCommand
InitStart == [pc |-> "doCommand", retry |-> 0, success |-> FALSE, attempts |-> 0,
              listening |-> FALSE, result |-> "running"]

\* The threads that call Scheduler::invoke: two connection handlers that add a
\* request each, the worker each request is dispatched to, and the stop handler
Handlers == {"h1", "h2"}
WorkerOf(h) == IF h = "h1" THEN "w1" ELSE "w2"
Workers == {WorkerOf(h) : h \in Handlers}
StopHandler == "stop"
Invokers == Handlers \cup Workers \cup {StopHandler}
SchedThread == "sched"
NoThread == "none"

\* mtx, invmtx: the owner of Scheduler::mtx and of LTFSDMInventory::mtx;
\* sched: where Scheduler::run stands; term: Server::terminate as this part sees
\* it; todo: the rows the running SELECT still returns; rows: the request of
\* each handler; pc: where each invoking thread stands; early: the handlers
\* that notified before the scheduler thread had taken its mutex; late: the
\* handlers that inserted their row while a pass was running
InitSync ==
    [mtx |-> NoThread, invmtx |-> NoThread, sched |-> "start", term |-> FALSE,
     todo |-> {}, rows |-> [h \in Handlers |-> "none"],
     pc |-> [t \in Invokers |-> IF t \in Workers THEN "none" ELSE "idle"],
     early |-> {}, late |-> {}]

\* all but the pools
InitServer ==
    /\ sync = InitSync
    /\ drive = [d \in Drives |-> [busy |-> FALSE, moveReqNum |-> UNSET,
                                  moveReqPool |-> "", toUnblock |-> NOOP]]
    /\ reqQ = {}
    /\ jobQ = {}
    /\ subs = {}
    /\ globalReqNumber = 0
    /\ schedPc = "wait"
    /\ schedTodo = {}
    /\ notified = FALSE
    /\ terminate = FALSE
    /\ forcedTerminate = FALSE
    /\ finishTerminate = FALSE
    /\ stop = InitStop
    /\ conn = InitConn
    /\ waited = <<>>
    /\ run = InitRun
    /\ termmtx = NoConn
    /\ returned = <<>>
    /\ info = InitInfo
    /\ start = InitStart

InitCommon == pools = InitPools /\ InitServer

Init ==
    /\ InitCommon
    /\ \E f \in Placements :
          cart = [t \in Tapes |->
                    [state |-> IF f[t] = EmptyId THEN TAPE_UNMOUNTED ELSE TAPE_MOUNTED,
                     slot |-> IF f[t] = EmptyId THEN HomeSlot(t) ELSE DriveSlot(f[t]),
                     requested |-> FALSE,
                     remaining_cap |-> InitCap(t)]]

(***************************************************************************)
(* Admission of requests: what the addRequest of a file operation leaves   *)
(* in the queues once its connection handler has received the objects.     *)
(***************************************************************************)
\* a dispatched, unfinished migration worker holds cartridge t, which is INUSE
MigrationHolds(crt, t) ==
    /\ crt[t].state = TAPE_INUSE
    /\ \E k \in subs : k.kind = "exec" /\ k.op = MIGRATION /\ k.tapeId = t

\* one more pass counted, up to PassBound, for a recall that was submitted while
\* a migration held its tape
Bump(w, key) ==
    IF key \in DOMAIN w
    THEN [w EXCEPT ![key] = IF @ < PassBound THEN @ + 1 ELSE @]
    ELSE w

SelRecallAddRequest(op, tapes) ==
    /\ op \in RecallOps
    /\ globalReqNumber' = globalReqNumber + 1
    /\ reqQ' = reqQ \cup {Row(op, globalReqNumber', UNSET, UNSET, "", t, EmptyId) : t \in tapes}
    /\ waited' = waited @@ [key \in {<<globalReqNumber', t>> :
                                        t \in {x \in tapes : MigrationHolds(cart, x)}} |-> 0]
    /\ invoke
    /\ UNCHANGED <<invVars, jobQ, subs, schedVars, termVars, stop, conn,
                   connVars, info, start>>

\* the replica number of pool p among the pools of a migration
PoolSeq == <<"a", "b", "c", "d">>
PoolIndex(p) == CHOOSE i \in 1..Len(PoolSeq) : PoolSeq[i] = p
ReplNumOf(ps, p) == Cardinality({q \in ps : PoolIndex(q) < PoolIndex(p)})

MigrationAddRequest(ps, size) ==
    /\ ps # {}
    /\ globalReqNumber' = globalReqNumber + 1
    /\ reqQ' = reqQ \cup {Row(MIGRATION, globalReqNumber', Cardinality(ps), ReplNumOf(ps, p),
                              p, EmptyId, EmptyId) : p \in ps}
    /\ jobQ' = jobQ \cup {[fileName |-> "/m/a", reqNum |-> globalReqNumber',
                           replNum |-> ReplNumOf(ps, p), fileSize |-> size,
                           fileState |-> RESIDENT] : p \in ps}
    /\ invoke
    /\ UNCHANGED <<invVars, subs, schedVars, termVars, stop, conn, waited,
                   connVars, info, start>>

TapeHandlerAddRequest(op, t) ==
    /\ op \in TapeHandlerOps
    /\ globalReqNumber' = globalReqNumber + 1
    /\ reqQ' = reqQ \cup {Row(op, globalReqNumber', UNSET, UNSET, PoolOf(t), t, EmptyId)}
    /\ invoke
    /\ UNCHANGED <<invVars, jobQ, subs, schedVars, termVars, stop, conn, waited,
                   connVars, info, start>>


(***************************************************************************)
(* Scheduler::run.                                                         *)
(***************************************************************************)
\* cond.wait returns: leave on terminate, else read the NEW requests; with none
\* to read the SELECT is finalized and the scheduler waits again
SchedWake ==
    /\ schedPc = "wait"
    /\ notified
    /\ notified' = FALSE
    /\ LET new == {r \in reqQ : r.state = REQ_NEW}
       IN  IF terminate
           THEN schedPc' = "done" /\ schedTodo' = {}
           ELSE schedPc' = (IF new = {} THEN "wait" ELSE "pass") /\ schedTodo' = new
    /\ UNCHANGED <<invVars, reqQ, jobQ, subs, globalReqNumber, termVars, stop, conn, waited,
                   connVars, info, start>>

\* the tape ids of a pool for which inventory->getCartridge returns nullptr
MissingCartridges(pl, pool) == pl[pool] \ Tapes

\* Server::conf.poolRemove for each of the tape ids in gone
poolRemove(pl, pool, gone) == IF gone = {} THEN pl ELSE [pl EXCEPT ![pool] = @ \ gone]

\* one iteration of the while (selstmt.step(...)) loop, under the inventory lock;
\* after the last row the SELECT is finalized and the scheduler waits again.
\* Where an assert of resAvail fails, a build with assertions ends the server
\* there and a build with NDEBUG goes on.
\* Where poolResAvail meets a tape id the inventory does not contain, it removes
\* the id from the pool and then calls getState() through the null pointer:
\* the read ends the server, or it yields a value that is neither MOUNTED nor
\* UNMOUNTED and the loop goes on.  The loop meets every such id unless it
\* returns before, at a MOUNTED cartridge with room.
SchedExamine(r) ==
    /\ schedPc = "pass"
    /\ r \in schedTodo
    /\ \A x \in schedTodo : Before(r, x)
    /\ LET minFileSize == IF r.op = MIGRATION THEN smallestMigJob(jobQ, r.reqNum, r.replNum)
                          ELSE 0
           mountTarget == IF r.op = FORMAT \/ r.op = CHECK THEN MOVE ELSE MOUNT
           res == resAvail(drive, cart, pools, r.op, r.reqNum, r.pool, r.driveId, r.tapeId,
                           mountTarget, minFileSize)
           missing == IF r.op = MIGRATION /\ r.tapeId = EmptyId
                      THEN MissingCartridges(pools, r.pool) ELSE {}
       IN  \/ /\ assertFails(drive, cart, pools, r.op, r.pool, r.tapeId, minFileSize)
              /\ schedPc' = "aborted"
              /\ schedTodo' = schedTodo \ {r}
              /\ UNCHANGED <<drive, cart, pools, reqQ, subs, waited>>
           \/ /\ \E t \in missing : pools' = poolRemove(pools, r.pool, {t})
              /\ schedPc' = "aborted"
              /\ schedTodo' = schedTodo \ {r}
              /\ UNCHANGED <<drive, cart, reqQ, subs, waited>>
           \/ /\ \E gone \in SUBSET missing :
                    /\ ~res.ok => gone = missing
                    /\ pools' = poolRemove(pools, r.pool, gone)
              /\ drive' = res.drive
              /\ cart' = res.cart
              /\ IF res.ok
                 THEN /\ reqQ' = UpdateDispatched(reqQ, r.op, r.reqNum, r.replNum, r.pool,
                                                  res.tapeId)
                      /\ subs' = subs \cup {ExecTask(r.op, r.reqNum, r.replNum, r.pool,
                                                     res.driveId, res.tapeId)}
                 ELSE /\ reqQ' = reqQ
                      /\ subs' = subs \cup res.enq
              /\ schedTodo' = schedTodo \ {r}
              /\ schedPc' = IF schedTodo' = {} THEN "wait" ELSE "pass"
              /\ waited' = IF r.op \in RecallOps /\ MigrationHolds(cart, r.tapeId)
                            THEN Bump(waited, <<r.reqNum, r.tapeId>>)
                            ELSE waited
    /\ UNCHANGED <<jobQ, globalReqNumber, notified, termVars, stop, conn,
                   connVars, info, start>>

(***************************************************************************)
(* Tape movers and file-operation workers.                                 *)
(***************************************************************************)
\* TapeMover::addRequest: a NEW row for the motion, then wake the scheduler
TapeMoverAddRequest(k) ==
    /\ k \in subs
    /\ k.kind = "add"
    /\ globalReqNumber' = globalReqNumber + 1
    /\ reqQ' = reqQ \cup {Row(k.op, globalReqNumber', UNSET, UNSET, "", k.tapeId, k.driveId)}
    /\ subs' = subs \ {k}
    /\ invoke
    /\ UNCHANGED <<invVars, jobQ, schedVars, termVars, stop, conn, waited,
                   connVars, info, start>>

\* TapeMover::execRequest starts the motion: the cartridge is MOVING
TapeMoverStart(k) ==
    /\ k \in subs
    /\ k.kind = "exec"
    /\ k.op \in TapeMoveOps
    /\ k.phase = "start"
    /\ cart' = [cart EXCEPT ![k.tapeId].state = TAPE_MOVING]
    /\ subs' = (subs \ {k}) \cup {[k EXCEPT !.phase = "moving"]}
    /\ UNCHANGED <<drive, pools, reqQ, jobQ, globalReqNumber, schedVars, notified,
                   termVars, stop, conn, waited, connVars, info, start>>

\* the motion is done: cartridge state and slot, drive free, move request cleared
TapeMoverDone(k) ==
    /\ k \in subs
    /\ k.kind = "exec"
    /\ k.op \in TapeMoveOps
    /\ k.phase = "moving"
    /\ cart' = IF k.op = UNMOUNT
               THEN [cart EXCEPT ![k.tapeId].state = TAPE_UNMOUNTED,
                                 ![k.tapeId].slot = HomeSlot(k.tapeId)]
               ELSE [cart EXCEPT ![k.tapeId].state = TAPE_MOUNTED,
                                 ![k.tapeId].slot = DriveSlot(k.driveId)]
    /\ drive' = [drive EXCEPT ![k.driveId].busy = FALSE,
                              ![k.driveId].moveReqNum = UNSET,
                              ![k.driveId].moveReqPool = ""]
    /\ reqQ' = UpdateRequest(reqQ, REQ_COMPLETED, k.reqNum)
    /\ subs' = subs \ {k}
    /\ invoke
    /\ UNCHANGED <<pools, jobQ, globalReqNumber, schedVars, termVars, stop, conn, waited,
                   connVars, info, start>>

\* a Migration, SelRecall, TransRecall or TapeHandler worker finishes: request
\* COMPLETED, drive released, cartridge out of INUSE, scheduler woken
WorkerDone(k) ==
    /\ k \in subs
    /\ k.kind = "exec"
    /\ k.op \notin TapeMoveOps
    /\ reqQ' = IF k.op = MIGRATION
               THEN UpdateMigRequest(reqQ, REQ_COMPLETED, k.tapeId, k.reqNum, k.replNum, k.pool)
               ELSE IF k.op \in RecallOps
               THEN UpdateRecRequest(reqQ, REQ_COMPLETED, k.reqNum, k.tapeId)
               ELSE UpdateRequest(reqQ, REQ_COMPLETED, k.reqNum)
    /\ drive' = [drive EXCEPT ![k.driveId].busy = FALSE]
    /\ cart' = [cart EXCEPT ![k.tapeId].state = TAPE_MOUNTED]
    /\ subs' = subs \ {k}
    /\ invoke
    /\ UNCHANGED <<pools, jobQ, globalReqNumber, schedVars, termVars, stop, conn, waited,
                   connVars, info, start>>

(***************************************************************************)
(* MessageParser::stopMessage.                                             *)
(***************************************************************************)
\* the stop request arrives: the handler returns on a foreign key, else it sets
\* the termination flags
StopMessage(keyOk, forced, finish) ==
    /\ stop.pc = "idle"
    /\ IF keyOk
       THEN /\ terminate' = TRUE
            /\ forcedTerminate' = (forcedTerminate \/ forced)
            /\ finishTerminate' = (finishTerminate \/ finish)
            /\ stop' = [stop EXCEPT !.pc = "count", !.forced = forced, !.finish = finish,
                                    !.reads = @ + 1]
       ELSE /\ stop' = [stop EXCEPT !.pc = "done", !.keyOk = FALSE, !.reads = @ + 1]
            /\ UNCHANGED termVars
    /\ UNCHANGED <<invVars, reqQ, jobQ, subs, globalReqNumber, schedVars, notified, conn, waited,
                   connVars, info, start>>

\* SELECT STATE FROM REQUEST_QUEUE, skipped on a forced or finishing stop
StopCount ==
    /\ stop.pc = "count"
    /\ stop' = [stop EXCEPT
                  !.pc = "send",
                  !.numreqs = IF ~forcedTerminate /\ ~finishTerminate
                              THEN Cardinality({r \in reqQ : r.state = REQ_INPROGRESS})
                              ELSE 0]
    /\ UNCHANGED <<invVars, reqQ, jobQ, subs, globalReqNumber, schedVars, notified,
                   termVars, conn, waited, connVars, info, start>>

\* a stop handler that leaves its loop after the first response, whatever the count
StopSendOnce(ok) ==
    /\ stop.pc = "send"
    /\ stop' = IF ok
               THEN [stop EXCEPT !.pc = "notify",
                                 !.success = (stop.numreqs = 0),
                                 !.replies = Append(@, stop.numreqs = 0)]
               ELSE [stop EXCEPT !.pc = "done"]
    /\ UNCHANGED <<invVars, reqQ, jobQ, subs, globalReqNumber, schedVars, notified,
                   termVars, conn, waited, connVars, info, start>>

\* send stopresp{success = (numreqs == 0)}; the handler returns when send throws
StopSend(ok) ==
    /\ stop.pc = "send"
    /\ stop' = IF ok
               THEN [stop EXCEPT !.pc = IF stop.numreqs > 0 THEN "recv" ELSE "notify",
                                 !.success = (stop.numreqs = 0),
                                 !.replies = Append(@, stop.numreqs = 0)]
               ELSE [stop EXCEPT !.pc = "done"]
    /\ UNCHANGED <<invVars, reqQ, jobQ, subs, globalReqNumber, schedVars, notified,
                   termVars, conn, waited, connVars, info, start>>

\* the client polls again; the handler returns when recv throws
StopRecv(ok) ==
    /\ stop.pc = "recv"
    /\ Len(stop.replies) < MaxStopPolls
    /\ stop' = [stop EXCEPT !.pc = IF ok THEN "count" ELSE "done",
                            !.reads = IF ok THEN @ + 1 ELSE @]
    /\ UNCHANGED <<invVars, reqQ, jobQ, subs, globalReqNumber, schedVars, notified,
                   termVars, conn, waited, connVars, info, start>>

\* notify the scheduler and raise SIGUSR1
StopNotify ==
    /\ stop.pc = "notify"
    /\ stop' = [stop EXCEPT !.pc = "done", !.sigusr1 = TRUE, !.notifies = @ + 1,
                            !.signals = @ + 1]
    /\ invoke
    /\ UNCHANGED <<invVars, reqQ, jobQ, subs, globalReqNumber, schedVars, termVars, conn, waited,
                   connVars, info, start>>

(***************************************************************************)
(* MessageParser: the pools string of a migration request.                 *)
(***************************************************************************)
\* std::getline(poolss, pool, ','): the characters of s from position i up to the
\* next delimiter, which is consumed, or up to the end of s
RECURSIVE getline(_, _, _)
getline(s, i, pool) ==
    IF i > Len(s) THEN [pool |-> pool, next |-> i]
    ELSE IF s[i] = Delim THEN [pool |-> pool, next |-> i + 1]
    ELSE getline(s, i + 1, Append(pool, s[i]))

\* inventory->getPool(pool) != nullptr: pools carry one-character names
poolExists(pl, pool) == Len(pool) = 1 /\ pool[1] \in DOMAIN pl

\* the while (std::getline(...)) loop: getline fails once the stream is at its end
RECURSIVE parsePools(_, _, _, _)
parsePools(pl, s, i, found) ==
    IF i > Len(s) THEN [error |-> LTFSDM_OK, pools |-> found]
    ELSE LET g == getline(s, i, <<>>)
         IN  IF ~poolExists(pl, g.pool)
             THEN [error |-> LTFSDM_NOT_ALL_POOLS_EXIST, pools |-> found]
             ELSE parsePools(pl, s, g.next, found \cup {g.pool[1]})

\* the pool-number test in which three pools are already too many
poolNumErrorFromThree(error, size) ==
    IF error = LTFSDM_OK /\ size >= 3 THEN LTFSDM_WRONG_POOLNUM ELSE error

\* if ( !error && (pools.size() > 3) ) error = LTFSDM_WRONG_POOLNUM
poolNumError(error, size) ==
    IF error = LTFSDM_OK /\ size > 3 THEN LTFSDM_WRONG_POOLNUM ELSE error

\* the handler that receives objects whatever the reply said
afterReplyAlways(error) == "recv"

\* if ( !error ) { getObjects; addRequest; reqStatusMessage }
afterReply(error) == IF error = LTFSDM_OK THEN "recv" ELSE "done"

(***************************************************************************)
(* MessageParser: the reqNum handshake, the mig and selRec handlers.       *)
(***************************************************************************)
\* MessageParser::requestNumber; on a foreign key it returns and MessageParser::run
\* reads the next message of the connection
RequestNumber(keyOk) ==
    /\ conn.pc = "idle"
    /\ IF keyOk
       THEN /\ globalReqNumber' = globalReqNumber + 1
            /\ conn' = [conn EXCEPT !.pc = "ready", !.reqNum = globalReqNumber',
                                    !.keyOk = TRUE, !.sent = @ + 1]
       ELSE /\ conn' = [conn EXCEPT !.keyOk = FALSE]
            /\ UNCHANGED globalReqNumber
    /\ UNCHANGED <<invVars, reqQ, jobQ, subs, schedVars, notified, termVars, stop, waited,
                   connVars, info, start>>

\* MessageParser::migrationMessage up to the reply it has built
MigrationMessage(keyOk, s) ==
    /\ conn.pc = "ready"
    /\ IF ~keyOk
       THEN conn' = [conn EXCEPT !.pc = "done", !.keyOk = FALSE]
       ELSE IF ~terminate
       THEN LET p == parsePools(pools, s, 1, {})
            IN  conn' = [conn EXCEPT !.pc = "reply", !.kind = "mig", !.msg = s,
                                     !.error = poolNumError(p.error, Cardinality(p.pools)),
                                     !.pools = p.pools,
                                     !.numRepl = Cardinality(p.pools),
                                     !.built = TRUE]
       ELSE conn' = [conn EXCEPT !.pc = "reply", !.kind = "mig", !.msg = s,
                                 !.error = LTFSDM_TERMINATING]
    /\ UNCHANGED <<invVars, reqQ, jobQ, subs, globalReqNumber, schedVars, notified,
                   termVars, stop, waited, connVars, info, start>>

\* MessageParser::selRecallMessage up to the reply it has built
SelRecallMessage(keyOk) ==
    /\ conn.pc = "ready"
    /\ IF ~keyOk
       THEN conn' = [conn EXCEPT !.pc = "done", !.keyOk = FALSE]
       ELSE IF ~terminate
       THEN conn' = [conn EXCEPT !.pc = "reply", !.kind = "selrec", !.built = TRUE]
       ELSE conn' = [conn EXCEPT !.pc = "reply", !.kind = "selrec",
                                 !.error = LTFSDM_TERMINATING]
    /\ UNCHANGED <<invVars, reqQ, jobQ, subs, globalReqNumber, schedVars, notified,
                   termVars, stop, waited, connVars, info, start>>

\* command->send() of the reply; the handler returns when it throws, and goes on
\* to getObjects only if ( !error ).  The request message is not read again.
SendReply(ok) ==
    /\ conn.pc = "reply"
    /\ conn' = IF ok
               THEN [conn EXCEPT !.pc = afterReply(conn.error), !.replied = TRUE,
                                 !.msg = <<>>, !.sent = @ + 1]
               ELSE [conn EXCEPT !.pc = "done", !.msg = <<>>]
    /\ UNCHANGED <<invVars, reqQ, jobQ, subs, globalReqNumber, schedVars, notified,
                   termVars, stop, waited, connVars, info, start>>

(***************************************************************************)
(* MessageParser::getObjects, the addRequest that follows it, and          *)
(* MessageParser::reqStatusMessage.                                        *)
(***************************************************************************)
\* the tape a migrated file lies on
TapeOfFile(f) == IF f = "/m/a" THEN 1 ELSE 2

\* the job rows FileOperation::addJob inserts for one file name: one per replica
\* of a migration, one for a recall
JobRows(kind, f, reqNum, numRepl) ==
    IF kind = "mig"
    THEN {[fileName |-> f, reqNum |-> reqNum, replNum |-> n,
           fileSize |-> 1024 * 1024, fileState |-> RESIDENT] : n \in 0..(numRepl - 1)}
    ELSE {[fileName |-> f, reqNum |-> reqNum, replNum |-> 0,
           fileSize |-> 1024 * 1024, fileState |-> "MIGRATED"]}

JobKey(j) == <<j.fileName, j.reqNum, j.replNum>>

\* addJob: the insertion raises SQLITE_CONSTRAINT_PRIMARYKEY when a row with the
\* key (fileName, reqNum, replNum) is there already
addJob(jq, kind, f, reqNum, numRepl) ==
    LET rows == JobRows(kind, f, reqNum, numRepl)
        raised == \E j \in jq, n \in rows : JobKey(j) = JobKey(n)
    IN  [raised |-> raised, jobQ |-> IF raised THEN jq ELSE jq \cup rows]

\* one iteration of the filename loop in which a uniqueness violation ends the
\* handler
getObjectsFileAbortOnDup(c, jq, term) ==
    IF term THEN [conn |-> [c EXCEPT !.pc = "addreq", !.closed = TRUE,
                                     !.left = "terminate"], jobQ |-> jq]
    ELSE LET f == c.batch[c.j]
             a == addJob(jq, c.kind, f, c.reqNum, c.numRepl)
             pc == IF c.j + 1 > Len(c.batch) THEN "ack" ELSE "files"
         IN  IF f = EndOfObjects
             THEN [conn |-> [c EXCEPT !.cont = FALSE, !.j = @ + 1, !.pc = pc], jobQ |-> jq]
             ELSE IF a.raised
             THEN [conn |-> [c EXCEPT !.dupSeen = TRUE, !.pc = "done"], jobQ |-> jq]
             ELSE [conn |-> [c EXCEPT !.j = @ + 1, !.pc = pc], jobQ |-> a.jobQ]

\* one iteration of for (j = 0; j < sendobjects.filenames_size(); j++)
getObjectsFile(c, jq, term) ==
    IF term THEN [conn |-> [c EXCEPT !.pc = "addreq", !.closed = TRUE,
                                     !.left = "terminate"], jobQ |-> jq]
    ELSE LET f == c.batch[c.j]
             a == addJob(jq, c.kind, f, c.reqNum, c.numRepl)
             pc == IF c.j + 1 > Len(c.batch) THEN "ack" ELSE "files"
         IN  IF f = EndOfObjects
             THEN [conn |-> [c EXCEPT !.cont = FALSE, !.j = @ + 1, !.pc = pc], jobQ |-> jq]
             ELSE IF a.raised
             THEN [conn |-> [c EXCEPT !.dupSeen = TRUE, !.j = @ + 1, !.pc = pc], jobQ |-> jq]
             ELSE [conn |-> [c EXCEPT !.j = @ + 1, !.pc = pc], jobQ |-> a.jobQ]

\* the batches of file names a client sends
Batches == UNION {[1..n -> FileNames \cup {EndOfObjects}] : n \in 0..MaxBatchLen}

\* top of while (cont): forcedTerminate, command->recv(), has_sendobjects();
\* getObjects returns on each of the three, else the batch is at hand.  No key
\* is read from the batch: keyOk says whether its sender holds the server's key
GetObjectsRecv(outcome, keyOk, b) ==
    /\ conn.pc = "recv"
    /\ outcome \in {"sendobjects", "throws", "other"}
    /\ IF forcedTerminate \/ outcome # "sendobjects"
       THEN conn' = [conn EXCEPT !.pc = "addreq",
                                 !.commFailed = ~forcedTerminate /\ outcome = "throws",
                                 !.left = IF forcedTerminate THEN "forced"
                                          ELSE IF outcome = "throws" THEN "recv"
                                          ELSE "message"]
       ELSE /\ conn.batches < MaxBatches
            /\ conn' = [conn EXCEPT !.batch = b, !.j = 1, !.batches = @ + 1,
                                    !.keyOk = keyOk,
                                    !.pc = IF Len(b) = 0 THEN "ack" ELSE "files"]
    /\ UNCHANGED <<invVars, reqQ, jobQ, subs, globalReqNumber, schedVars, notified,
                   termVars, stop, waited, connVars, info, start>>

GetObjectsFile ==
    /\ conn.pc = "files"
    /\ LET r == getObjectsFile(conn, jobQ, terminate)
       IN  conn' = r.conn /\ jobQ' = r.jobQ
    /\ UNCHANGED <<invVars, reqQ, subs, globalReqNumber, schedVars, notified,
                   termVars, stop, waited, connVars, info, start>>

\* getObjects whose loop goes on after the batch with the empty name
GetObjectsAckGoesOn(ok) ==
    /\ conn.pc = "ack"
    /\ conn' = IF ok
               THEN [conn EXCEPT !.acked = IF conn.success THEN "true" ELSE "false",
                                 !.sent = @ + 1,
                                 !.acks = @ + 1,
                                 !.pc = IF conn.batches < MaxBatches THEN "recv" ELSE "addreq",
                                 !.left = IF conn.batches < MaxBatches THEN "none" ELSE "end"]
               ELSE [conn EXCEPT !.pc = "addreq", !.commFailed = TRUE, !.left = "send"]
    /\ UNCHANGED <<invVars, reqQ, jobQ, subs, globalReqNumber, schedVars, notified,
                   termVars, stop, waited, connVars, info, start>>

\* sendobjectsresp{success} is sent; getObjects returns when send throws or the
\* stream has ended
GetObjectsAck(ok) ==
    /\ conn.pc = "ack"
    /\ conn' = IF ok
               THEN [conn EXCEPT !.acked = IF conn.success THEN "true" ELSE "false",
                                 !.sent = @ + 1,
                                 !.acks = @ + 1,
                                 !.pc = IF conn.cont THEN "recv" ELSE "addreq",
                                 !.left = IF conn.cont THEN "none" ELSE "end"]
               ELSE [conn EXCEPT !.pc = "addreq", !.commFailed = TRUE, !.left = "send"]
    /\ UNCHANGED <<invVars, reqQ, jobQ, subs, globalReqNumber, schedVars, notified,
                   termVars, stop, waited, connVars, info, start>>

\* mig->addRequest() / srec->addRequest(): a NEW row per replica pool, or per tape
\* of the request's jobs, and the scheduler is woken
AddRequest ==
    /\ conn.pc = "addreq"
    /\ reqQ' = reqQ \cup
         (IF conn.kind = "mig"
          THEN {Row(MIGRATION, conn.reqNum, conn.numRepl, ReplNumOf(conn.pools, p),
                    p, EmptyId, EmptyId) : p \in conn.pools}
          ELSE {Row(SELRECALL, conn.reqNum, UNSET, UNSET, "", TapeOfFile(j.fileName),
                    EmptyId) : j \in {x \in jobQ : x.reqNum = conn.reqNum}})
    /\ conn' = [conn EXCEPT !.pc = "status", !.added = TRUE]
    /\ invoke
    /\ UNCHANGED <<invVars, jobQ, subs, globalReqNumber, schedVars, termVars, stop, waited,
                   connVars, info, start>>

\* one round of the do ... while (!done) loop of reqStatusMessage: recv, key
\* test, queryResult, send
ReqStatusMessage(ok, keyOk, done) ==
    /\ conn.pc = "status"
    /\ conn.sent < MaxSent
    /\ conn' = IF ~ok
               THEN [conn EXCEPT !.pc = "done"]
               ELSE IF ~keyOk
               THEN [conn EXCEPT !.pc = "done", !.keyOk = FALSE]
               ELSE [conn EXCEPT !.pc = IF done THEN "done" ELSE "status",
                                 !.keyOk = TRUE, !.sent = @ + 1]
    /\ UNCHANGED <<invVars, reqQ, jobQ, subs, globalReqNumber, schedVars, notified,
                   termVars, stop, waited, connVars, info, start>>

(***************************************************************************)
(* The scheduler with its workers, tape movers and the stop handler.       *)
(***************************************************************************)
\* the bounds of the model: client requests admitted, tape motions queued
MayAdmit == Cardinality(ClientReqNums) < MaxClientReqs
MayMove == Cardinality(MoveRows) < MaxMoves

\* the pools that hold cartridges
StockedPools == {p \in PoolNames : pools[p] # {}}

Next ==
    \/ \E op \in RecallOps, ts \in (SUBSET Tapes) \ {{}} :
          MayAdmit /\ SelRecallAddRequest(op, ts)
    \/ \E ps \in (SUBSET StockedPools) \ {{}}, size \in FileSizes :
          MayAdmit /\ MigrationAddRequest(ps, size)
    \/ \E op \in TapeHandlerOps, t \in Tapes : MayAdmit /\ TapeHandlerAddRequest(op, t)
    \/ SchedWake
    \/ \E r \in schedTodo : SchedExamine(r)
    \/ \E k \in subs : MayMove /\ TapeMoverAddRequest(k)
    \/ \E k \in subs : TapeMoverStart(k)
    \/ \E k \in subs : TapeMoverDone(k)
    \/ \E k \in subs : WorkerDone(k)

Spec == Init /\ [][Next]_vars


(***************************************************************************)
(* C1.  For every (reqNum, pool) with reqNum set, at most one drive has    *)
(* moveReqNum = reqNum and moveReqPool = pool, in every reachable state.   *)
(***************************************************************************)
C1_MoveReqUnique ==
    \A d1, d2 \in Drives :
        (/\ drive[d1].moveReqNum # UNSET
         /\ drive[d1].moveReqNum = drive[d2].moveReqNum
         /\ drive[d1].moveReqPool = drive[d2].moveReqPool) => d1 = d2

\* a request whose motion is running on one drive is NEW for another UNMOUNTED
\* cartridge while a second drive is free for it
C1_Witness ==
    \E d1, d2 \in Drives, r \in reqQ :
        /\ d1 # d2
        /\ r.state = REQ_NEW
        /\ r.op \notin TapeMoveOps
        /\ r.tapeId # EmptyId
        /\ cart[r.tapeId].state = TAPE_UNMOUNTED
        /\ drive[d1].moveReqNum = r.reqNum
        /\ drive[d1].moveReqPool = r.pool
        /\ drive[d1].busy
        /\ d2 \in FreeDrives(drive, cart, r.reqNum, r.pool)
        /\ schedPc = "wait"
        /\ \E k \in subs : k.kind = "exec" /\ k.driveId = d1 /\ k.op \in TapeMoveOps

(***************************************************************************)
(* C3.  A cartridge is reserved by at most one task at a time: no two      *)
(* dispatched and unfinished workers or tape movers hold the same          *)
(* cartridge.                                                              *)
(***************************************************************************)
C3_OneTaskPerCartridge ==
    \A k1, k2 \in subs :
        (k1.kind = "exec" /\ k2.kind = "exec" /\ k1.tapeId = k2.tapeId) => k1 = k2

(***************************************************************************)
(* C4.  Every INPROGRESS request row has a non-empty driveId and tapeId,   *)
(* and that drive is busy.                                                 *)
(***************************************************************************)
C4_InProgressHasDrive ==
    \A r \in reqQ :
        r.state = REQ_INPROGRESS =>
            /\ r.tapeId # EmptyId
            /\ r.driveId # EmptyId
            /\ drive[r.driveId].busy

(***************************************************************************)
(* Recalls only, with room for a third tape motion: the scheduler, the     *)
(* tape movers and the recall workers.                                     *)
(***************************************************************************)
MaxRecallMoves == 3

MayMoveRecall == Cardinality(MoveRows) < MaxRecallMoves

NextRecall ==
    \/ \E op \in RecallOps, ts \in (SUBSET Tapes) \ {{}} :
          MayAdmit /\ SelRecallAddRequest(op, ts)
    \/ SchedWake
    \/ \E r \in schedTodo : SchedExamine(r)
    \/ \E k \in subs : MayMoveRecall /\ TapeMoverAddRequest(k)
    \/ \E k \in subs : TapeMoverStart(k)
    \/ \E k \in subs : TapeMoverDone(k)
    \/ \E k \in subs : WorkerDone(k)

SpecRecall == Init /\ [][NextRecall]_vars

\* the states in which a cartridge occupies the slot it is in
HeldStates == {TAPE_MOUNTED, TAPE_INUSE, TAPE_MOVING}

(***************************************************************************)
(* C2.  No drive slot is shared by two cartridges that are each MOUNTED,   *)
(* INUSE or MOVING, and no MOUNT or MOVE the scheduler has started runs on *)
(* a drive whose slot holds such a cartridge other than its own.           *)
(***************************************************************************)
C2_NoSharedSlot ==
    /\ \A t1, t2 \in Tapes, d \in Drives :
          (/\ cart[t1].slot = DriveSlot(d)
           /\ cart[t2].slot = DriveSlot(d)
           /\ cart[t1].state \in HeldStates
           /\ cart[t2].state \in HeldStates) => t1 = t2
    /\ \A k \in subs :
          (k.kind = "exec" /\ k.op \in {MOUNT, MOVE}) =>
              \A t \in Tapes \ {k.tapeId} :
                  ~(cart[t].slot = DriveSlot(k.driveId) /\ cart[t].state \in HeldStates)

(***************************************************************************)
(* C7.  A recall submitted for a tape that a running migration holds       *)
(* (INUSE), once PassBound scheduler passes have examined it with the      *)
(* migration still running, finds the tape requested and some drive's      *)
(* toUnblock set to the recall's operation.                                *)
(***************************************************************************)
C7_RecallPreemptsMigration ==
    \A r \in reqQ :
        (/\ r.op \in RecallOps
         /\ r.state = REQ_NEW
         /\ MigrationHolds(cart, r.tapeId)
         /\ <<r.reqNum, r.tapeId>> \in DOMAIN waited
         /\ waited[<<r.reqNum, r.tapeId>>] >= PassBound)
        => /\ cart[r.tapeId].requested
           /\ \E d \in Drives : drive[d].toUnblock = r.op

(***************************************************************************)
(* The stop handler beside the scheduler: recalls are admitted until       *)
(* terminate is set, the scheduler, tape movers and workers run on.        *)
(***************************************************************************)
MaxStopReqs == 1

MayAdmitStop == Cardinality(ClientReqNums) < MaxStopReqs /\ ~terminate

NextStop ==
    \/ \E op \in RecallOps, ts \in (SUBSET Tapes) \ {{}} :
          MayAdmitStop /\ SelRecallAddRequest(op, ts)
    \/ SchedWake
    \/ \E r \in schedTodo : SchedExamine(r)
    \/ \E k \in subs : MayMove /\ TapeMoverAddRequest(k)
    \/ \E k \in subs : TapeMoverStart(k)
    \/ \E k \in subs : TapeMoverDone(k)
    \/ \E k \in subs : WorkerDone(k)
    \/ \E keyOk, forced, finish \in BOOLEAN : StopMessage(keyOk, forced, finish)
    \/ StopCount
    \/ \E ok \in BOOLEAN : StopSend(ok)
    \/ \E ok \in BOOLEAN : StopRecv(ok)
    \/ StopNotify

SpecStop == Init /\ [][NextStop]_vars

(***************************************************************************)
(* C5.  Once the stop handler has sent a stop response with success =      *)
(* true, the request queue holds no INPROGRESS row, then and ever after.   *)
(***************************************************************************)
C5_StopSuccessNoInProgress ==
    stop.success => \A r \in reqQ : r.state # REQ_INPROGRESS

(***************************************************************************)
(* One connection: the reqNum handshake, a mig or selRec request with its  *)
(* objects and status polls, and a stop request that may arrive meanwhile. *)
(***************************************************************************)
PoolStrings == UNION {[1..n -> Chars] : n \in 0..MaxLen}

InitMsg ==
    /\ InitCommon
    /\ cart = [t \in Tapes |-> [state |-> TAPE_UNMOUNTED, slot |-> HomeSlot(t),
                                requested |-> FALSE, remaining_cap |-> InitCap(t)]]

NextMsg ==
    \/ \E keyOk \in BOOLEAN : RequestNumber(keyOk)
    \/ conn.pc = "ready" /\ \E keyOk \in BOOLEAN, s \in PoolStrings : MigrationMessage(keyOk, s)
    \/ \E keyOk \in BOOLEAN : SelRecallMessage(keyOk)
    \/ \E ok \in BOOLEAN : SendReply(ok)
    \/ conn.pc = "recv" /\ \E outcome \in {"sendobjects", "throws", "other"},
                               keyOk \in BOOLEAN, b \in Batches :
          GetObjectsRecv(outcome, keyOk, b)
    \/ GetObjectsFile
    \/ \E ok \in BOOLEAN : GetObjectsAck(ok)
    \/ AddRequest
    \/ \E ok, keyOk, done \in BOOLEAN : ReqStatusMessage(ok, keyOk, done)
    \/ \E keyOk, forced, finish \in BOOLEAN : StopMessage(keyOk, forced, finish)

SpecMsg == InitMsg /\ [][NextMsg]_vars

(***************************************************************************)
(* C6.  Every migration request the handler has built a Migration for and  *)
(* called addRequest on has numRepl in {1, 2, 3}.                          *)
(***************************************************************************)
C6_NumReplInRange ==
    (conn.kind = "mig" /\ conn.built /\ conn.added) => conn.numRepl \in {1, 2, 3}

\* the names a pools string lists, and the error the reply is to carry for it
NameStarts(s) == {i \in 1..Len(s) : i = 1 \/ s[i - 1] = Delim}
NameEnd(s, i) == MinOf({j \in i..(Len(s) + 1) : j = Len(s) + 1 \/ s[j] = Delim}) - 1
ListedNames(s) == {SubSeq(s, i, NameEnd(s, i)) : i \in NameStarts(s)}

ExpectedError(s) ==
    IF \E n \in ListedNames(s) : ~(\E p \in PoolNames : n = <<p>>)
    THEN LTFSDM_NOT_ALL_POOLS_EXIST
    ELSE IF Cardinality(ListedNames(s)) > 3
    THEN LTFSDM_WRONG_POOLNUM
    ELSE LTFSDM_OK

(***************************************************************************)
(* C8.  The error of the reply to a migration request, terminate being     *)
(* false, is NOT_ALL_POOLS_EXIST if a name of the comma-separated list is  *)
(* no existing pool, else WRONG_POOLNUM if the list names more than three  *)
(* distinct pools, else OK.  A name starts at the first character and      *)
(* after every comma that is not the last character, and runs up to the    *)
(* next comma or the end of the string.                                    *)
(***************************************************************************)
C8_ReplyError ==
    (conn.pc = "reply" /\ conn.kind = "mig") =>
        IF conn.error = LTFSDM_TERMINATING
        THEN terminate
        ELSE conn.error = ExpectedError(conn.msg)

\* a reply with WRONG_POOLNUM is about to be sent
C8_Witness ==
    /\ conn.pc = "reply"
    /\ conn.kind = "mig"
    /\ ~terminate
    /\ conn.error = LTFSDM_WRONG_POOLNUM
    /\ Cardinality(ListedNames(conn.msg)) = 4

(***************************************************************************)
(* C9.  A mig or selRec request whose reply carries a non-zero error       *)
(* leaves no job row and no request row, never enters the receive-objects  *)
(* or the status-poll loop, and never wakes the scheduler.                 *)
(***************************************************************************)
C9_ErrorReplyAdmitsNothing ==
    (conn.kind # "none" /\ conn.error # LTFSDM_OK) =>
        /\ conn.pc \in {"reply", "done"}
        /\ conn.batches = 0
        /\ ~conn.added
        /\ ~notified
        /\ \A r \in reqQ : r.reqNum # conn.reqNum
        /\ \A j \in jobQ : j.reqNum # conn.reqNum

\* the reply with NOT_ALL_POOLS_EXIST was sent and the handler has returned
C9_Witness ==
    /\ conn.kind = "mig"
    /\ conn.error = LTFSDM_NOT_ALL_POOLS_EXIST
    /\ conn.replied
    /\ conn.pc = "done"

\* the job rows of file name f in the handler's request are in the job queue
HasJobs(f) ==
    \A n \in JobRows(conn.kind, f, conn.reqNum, conn.numRepl) :
        \E j \in jobQ : JobKey(j) = JobKey(n)

(***************************************************************************)
(* C10.  After a uniqueness violation on a file name the receive-objects   *)
(* loop goes on: at the end of the batch every file name of it has its job *)
(* rows, the batch is acknowledged with success = true, and the request is *)
(* added to the request queue before the handler polls status or returns.  *)
(***************************************************************************)
C10_DuplicateDoesNotAbort ==
    conn.dupSeen =>
        /\ conn.pc = "ack" =>
              \A k \in 1..Len(conn.batch) :
                  conn.batch[k] # EndOfObjects => HasJobs(conn.batch[k])
        /\ conn.acked # "false"
        /\ conn.pc \in {"status", "done"} => conn.added

\* one batch "/m/a", "/m/a", "/m/b", "": the second name was reported, "/m/b" was
\* inserted after it, the batch acknowledged and the request added
C10_Witness ==
    /\ conn.dupSeen
    /\ conn.batches = 1
    /\ conn.batch = <<"/m/a", "/m/a", "/m/b", EndOfObjects>>
    /\ HasJobs("/m/b")
    /\ conn.acked = "true"
    /\ conn.pc = "status"
    /\ conn.added
    /\ \E r \in reqQ : r.reqNum = conn.reqNum

(***************************************************************************)
(* Selective recalls of one tape each, from up to three clients, with the  *)
(* scheduler, the tape movers and the recall workers.                      *)
(***************************************************************************)
MaxSelRecalls == 3

MayAdmitSelRecall == Cardinality(ClientReqNums) < MaxSelRecalls

NextSelRecall ==
    \/ \E t \in Tapes : MayAdmitSelRecall /\ SelRecallAddRequest(SELRECALL, {t})
    \/ SchedWake
    \/ \E r \in schedTodo : SchedExamine(r)
    \/ \E k \in subs : MayMove /\ TapeMoverAddRequest(k)
    \/ \E k \in subs : TapeMoverStart(k)
    \/ \E k \in subs : TapeMoverDone(k)
    \/ \E k \in subs : WorkerDone(k)

SpecSelRecall == Init /\ [][NextSelRecall]_vars

(***************************************************************************)
(* C11.  When a scheduler pass examines a NEW request for a specific tape  *)
(* (recall, format, check, or migration with its tapeId set) whose         *)
(* cartridge is MOUNTED, that one step leaves the drive in the cartridge's *)
(* slot busy, the cartridge INUSE, the request row INPROGRESS, and exactly *)
(* one new task on Scheduler::subs: the worker of the request's operation  *)
(* for that drive and cartridge.                                           *)
(***************************************************************************)
C11_MountedTapeDispatched ==
    [][\A r \in schedTodo :
          (/\ schedPc = "pass"
           /\ r \notin schedTodo'
           /\ r \in reqQ
           /\ r.op \notin TapeMoveOps
           /\ r.tapeId # EmptyId
           /\ cart[r.tapeId].state = TAPE_MOUNTED)
          => \E d \in Drives :
                /\ DriveSlot(d) = cart[r.tapeId].slot
                /\ drive'[d].busy
                /\ cart'[r.tapeId].state = TAPE_INUSE
                /\ [r EXCEPT !.state = REQ_INPROGRESS] \in reqQ'
                /\ r \notin reqQ'
                /\ subs' \ subs = {ExecTask(r.op, r.reqNum, r.replNum, r.pool, d, r.tapeId)}
                /\ subs \subseteq subs']_vars

\* a selective recall for a cartridge that was MOUNTED at the start has been
\* dispatched by the first pass: its worker holds the drive the cartridge is in
C11_Witness ==
    \E k \in subs, r \in reqQ :
        /\ k.kind = "exec"
        /\ k.op = SELRECALL
        /\ r.op = SELRECALL
        /\ r.reqNum = k.reqNum
        /\ r.tapeId = k.tapeId
        /\ r.state = REQ_INPROGRESS
        /\ cart[k.tapeId].state = TAPE_INUSE
        /\ cart[k.tapeId].slot = DriveSlot(k.driveId)
        /\ drive[k.driveId].busy
        /\ MoveRows = {}

(***************************************************************************)
(* Migrations to one pool each, with the scheduler, the tape movers and    *)
(* the migration workers; every thread that can run does run.              *)
(***************************************************************************)
NextMig ==
    \/ \E p \in StockedPools, size \in FileSizes : MayAdmit /\ MigrationAddRequest({p}, size)
    \/ SchedWake
    \/ \E r \in schedTodo : SchedExamine(r)
    \/ \E k \in subs : MayMove /\ TapeMoverAddRequest(k)
    \/ \E k \in subs : TapeMoverStart(k)
    \/ \E k \in subs : TapeMoverDone(k)
    \/ \E k \in subs : WorkerDone(k)

\* the scheduler thread and the threads of Scheduler::subs are scheduled
FairMig ==
    /\ WF_vars(SchedWake)
    /\ WF_vars(\E r \in schedTodo : SchedExamine(r))
    /\ WF_vars(\E k \in subs : MayMove /\ TapeMoverAddRequest(k))
    /\ WF_vars(\E k \in subs : TapeMoverStart(k))
    /\ WF_vars(\E k \in subs : TapeMoverDone(k))
    /\ WF_vars(\E k \in subs : WorkerDone(k))

SpecMig == Init /\ [][NextMig]_vars /\ FairMig

\* the slot of drive d holds no cartridge
SlotEmpty(d) == \A t \in Tapes : cart[t].slot # DriveSlot(d)

\* the first pass over migration row r: its pool's cartridges are all UNMOUNTED,
\* one has room for the smallest file, a usable drive is empty, no motion is
\* pending for the request
FirstMigPass(r) ==
    /\ r.op = MIGRATION
    /\ r.tapeId = EmptyId
    /\ r \in reqQ
    /\ pools[r.pool] # {}
    /\ \A t \in pools[r.pool] : cart[t].state = TAPE_UNMOUNTED
    /\ \E t \in pools[r.pool] :
          HasRoom(cart, t, smallestMigJob(jobQ, r.reqNum, r.replNum))
    /\ \E d \in Drives : driveIsUsable(drive, d, r.reqNum, r.pool) /\ SlotEmpty(d)
    /\ ~requestExists(drive, r.reqNum, r.pool)

\* the mount for migration row r has completed and the scheduler is woken:
\* cartridge t of the pool is MOUNTED in drive d, d is not busy and has no move
\* request, and every other row of the request queue is COMPLETED
MountedForMig(r, d, t) ==
    /\ r \in reqQ
    /\ r.op = MIGRATION
    /\ r.state = REQ_NEW
    /\ r.tapeId = EmptyId
    /\ t \in pools[r.pool]
    /\ cart[t].state = TAPE_MOUNTED
    /\ cart[t].slot = DriveSlot(d)
    /\ HasRoom(cart, t, smallestMigJob(jobQ, r.reqNum, r.replNum))
    /\ ~drive[d].busy
    /\ drive[d].moveReqNum = UNSET
    /\ notified
    /\ schedPc \in {"wait", "pass"}
    /\ \A x \in reqQ \ {r} : x.state = REQ_COMPLETED

\* the migration of row r runs on drive d and cartridge t
MigDispatched(r, d, t) ==
    /\ [r EXCEPT !.state = REQ_INPROGRESS, !.tapeId = t] \in reqQ
    /\ ExecTask(MIGRATION, r.reqNum, r.replNum, r.pool, d, t) \in subs
    /\ drive[d].busy
    /\ cart[t].state = TAPE_INUSE

\* the rows a migration can have in the request queue
MigRows ==
    {Row(MIGRATION, n, 1, 0, p, EmptyId, EmptyId) : n \in 1..(MaxClientReqs + MaxMoves),
                                                    p \in PoolNames}

(***************************************************************************)
(* C12.  The first pass over a NEW migration whose pool has only UNMOUNTED *)
(* cartridges, one with room for the smallest file, while a usable drive   *)
(* is empty, enqueues exactly one mount motion and leaves the request NEW. *)
(* Once the mount has completed (cartridge MOUNTED, drive not busy, move   *)
(* request cleared), the scheduler is woken and no other request is        *)
(* pending, the migration is eventually INPROGRESS on that drive and       *)
(* cartridge.                                                              *)
(***************************************************************************)
C12_MigrationMountsThenRuns ==
    /\ [][\A r \in schedTodo :
             (schedPc = "pass" /\ r \notin schedTodo' /\ FirstMigPass(r))
             => /\ \E d \in Drives, t \in pools[r.pool] :
                      /\ subs' \ subs = {AddTask(d, t, MOUNT)}
                      /\ drive'[d].moveReqNum = r.reqNum
                      /\ drive'[d].moveReqPool = r.pool
                /\ subs \subseteq subs'
                /\ reqQ' = reqQ
                /\ cart' = cart]_vars
    /\ \A r \in MigRows, d \in Drives, t \in Tapes :
          MountedForMig(r, d, t) ~> MigDispatched(r, d, t)

\* the mount a migration asked for has completed, the scheduler is woken
C12_Witness ==
    \E r \in reqQ, d \in Drives, t \in Tapes :
        /\ MountedForMig(r, d, t)
        /\ \E x \in reqQ : x.op = MOUNT /\ x.tapeId = t /\ x.driveId = d
                           /\ x.state = REQ_COMPLETED

\* the server state a connection handler can reach
ServerState == <<terminate, forcedTerminate, finishTerminate, globalReqNumber, pools,
                 drive, cart, reqQ, jobQ>>

(***************************************************************************)
(* C13.  A handler step made after a message with a foreign key was read   *)
(* (a reqNum, mig, selRec or stop request, a status poll or an object      *)
(* batch) changes no termination flag, not the request counter, the pools, *)
(* the inventory or the request and job queues, and sends no response.     *)
(***************************************************************************)
C13_ForeignKeyChangesNothing ==
    [][/\ (conn' # conn /\ ~conn'.keyOk)
            => (ServerState' = ServerState /\ conn'.sent = conn.sent)
       /\ (stop' # stop /\ ~stop'.keyOk)
            => (ServerState' = ServerState /\ stop'.replies = stop.replies)]_vars

\* a mig request with a foreign key was read and the handler has returned
C13_Witness ==
    /\ conn.pc = "done"
    /\ ~conn.keyOk
    /\ conn.kind = "none"
    /\ conn.reqNum # UNSET
    /\ conn.sent = 1

(***************************************************************************)
(* MessageParser::run of several connections: each takes Server::termmtx   *)
(* when it starts and keeps it through its reqNum handshakes, up to its    *)
(* first other message.                                                    *)
(***************************************************************************)
\* MessageParser::run that starts without taking Server::termmtx
runLockNoMutex(c) ==
    /\ run[c].pc = "start"
    /\ run' = [run EXCEPT ![c].pc = "recv"]
    /\ UNCHANGED termmtx

\* std::unique_lock<std::mutex> lock(Server::termmtx)
runLock(c) ==
    /\ run[c].pc = "start"
    /\ termmtx = NoConn
    /\ termmtx' = c
    /\ run' = [run EXCEPT ![c].pc = "recv"]

RunLock(c) ==
    /\ runLock(c)
    /\ UNCHANGED <<serverVars, globalReqNumber, returned, info, start, sync>>

\* a reqnum message: MessageParser::requestNumber up to *localReqNumber =
\* ++globalReqNumber; on a foreign key the next message is read
RunRequestNumber(c, keyOk) ==
    /\ run[c].pc = "recv"
    /\ IF keyOk
       THEN /\ globalReqNumber' = globalReqNumber + 1
            /\ run' = [run EXCEPT ![c].pc = "send", ![c].localReqNumber = globalReqNumber']
       ELSE UNCHANGED <<globalReqNumber, run>>
    /\ UNCHANGED <<serverVars, termmtx, returned, info, start, sync>>

\* command->send() of reqnumresp; a failure is traced and the next message read
RunSendNumber(c, ok) ==
    /\ run[c].pc = "send"
    /\ run' = [run EXCEPT ![c].pc = "recv"]
    /\ returned' = IF ok THEN Append(returned, <<c, run[c].localReqNumber>>) ELSE returned
    /\ UNCHANGED <<serverVars, globalReqNumber, termmtx, info, start>>

\* the first message that is no reqnum, or a failing recv: the lock is released
\* (lock.unlock() in run, reclock->unlock() in stopMessage) and the handler of
\* the message runs
RunOtherMessage(c) ==
    /\ run[c].pc = "recv"
    /\ run' = [run EXCEPT ![c].pc = "handler"]
    /\ termmtx' = IF termmtx = c THEN NoConn ELSE termmtx
    /\ UNCHANGED <<serverVars, globalReqNumber, returned, info, start, sync>>

\* a stop request: stopMessage returns on a foreign key (run then ends and its
\* lock is released), else it goes on to set the flags
RunStopMessage(c, keyOk, forced, finish) ==
    /\ run[c].pc = "recv"
    /\ IF keyOk
       THEN /\ run' = [run EXCEPT ![c].pc = "setTerminate", ![c].forced = forced,
                                  ![c].finish = finish]
            /\ UNCHANGED termmtx
       ELSE /\ run' = [run EXCEPT ![c].pc = "handler"]
            /\ termmtx' = IF termmtx = c THEN NoConn ELSE termmtx
    /\ UNCHANGED <<serverVars, globalReqNumber, returned, info, start, sync>>

\* a stop handler that leaves Server::terminate as it is
setTerminateSkipped == UNCHANGED terminate

\* Server::terminate = true
setTerminate == terminate' = TRUE

RunStopTerminate(c) ==
    /\ run[c].pc = "setTerminate"
    /\ setTerminate
    /\ run' = [run EXCEPT ![c].pc = "setForced"]
    /\ UNCHANGED <<invVars, reqQ, jobQ, subs, globalReqNumber, schedVars, notified,
                   forcedTerminate, finishTerminate, stop, conn, waited, termmtx,
                   returned, info, start, sync>>

\* if ( stopreq.forced() ) Server::forcedTerminate = true
RunStopForced(c) ==
    /\ run[c].pc = "setForced"
    /\ forcedTerminate' = IF run[c].forced THEN TRUE ELSE forcedTerminate
    /\ run' = [run EXCEPT ![c].pc = "setFinish"]
    /\ UNCHANGED <<invVars, reqQ, jobQ, subs, globalReqNumber, schedVars, notified,
                   terminate, finishTerminate, stop, conn, waited, termmtx,
                   returned, info, start, sync>>

\* if ( stopreq.finish() ) Server::finishTerminate = true; then
\* Server::termcond.notify_one() and reclock->unlock()
RunStopFinish(c) ==
    /\ run[c].pc = "setFinish"
    /\ finishTerminate' = IF run[c].finish THEN TRUE ELSE finishTerminate
    /\ run' = [run EXCEPT ![c].pc = "handler"]
    /\ termmtx' = IF termmtx = c THEN NoConn ELSE termmtx
    /\ UNCHANGED <<invVars, reqQ, jobQ, subs, globalReqNumber, schedVars, notified,
                   terminate, forcedTerminate, stop, conn, waited, returned, info, start, sync>>

MayHandshake == globalReqNumber < MaxHandshakes

NextRun ==
    \/ \E c \in Conns, keyOk, forced, finish \in BOOLEAN :
          RunStopMessage(c, keyOk, forced, finish)
    \/ \E c \in Conns : RunStopTerminate(c)
    \/ \E c \in Conns : RunStopForced(c)
    \/ \E c \in Conns : RunStopFinish(c)
    \/ \E c \in Conns : RunLock(c)
    \/ \E c \in Conns, keyOk \in BOOLEAN : MayHandshake /\ RunRequestNumber(c, keyOk)
    \/ \E c \in Conns, ok \in BOOLEAN : RunSendNumber(c, ok)
    \/ \E c \in Conns : RunOtherMessage(c)

SpecRun == Init /\ [][NextRun]_vars

(***************************************************************************)
(* C14.  Every reqNum response carries a number strictly greater than     *)
(* every number sent in a reqNum response before it, whichever connections *)
(* the responses went to.                                                  *)
(***************************************************************************)
C14_ReqNumIncreasing ==
    \A i, j \in 1..Len(returned) : i < j => returned[i][2] < returned[j][2]

\* two connections have done their handshakes one after the other, the first
\* of them twice
C14_Witness ==
    /\ Len(returned) = 3
    /\ returned[1][1] = returned[2][1]
    /\ returned[3][1] # returned[1][1]

\* the migration and selective-recall rows of a request queue
AdmittedRows(rq) == {r \in rq : r.op \in {MIGRATION, SELRECALL}}

(***************************************************************************)
(* C15.  Once terminate is true no new request is admitted: a mig or       *)
(* selRec message handled then is answered with the terminating error,     *)
(* and no step adds a migration or selective-recall row to the request     *)
(* queue, whatever the handler was doing when the flag was set.            *)
(***************************************************************************)
C15_NoAdmissionAfterTerminate ==
    [][terminate =>
          /\ AdmittedRows(reqQ') \subseteq AdmittedRows(reqQ)
          /\ (conn.pc = "ready" /\ conn'.pc = "reply")
                => conn'.error = LTFSDM_TERMINATING]_vars

\* terminate was set while the handler was receiving objects, and the handler
\* has gone on to addRequest
C15_Witness ==
    /\ terminate
    /\ conn.closed
    /\ conn.added

(***************************************************************************)
(* C16.  terminate, forcedTerminate and finishTerminate change only from   *)
(* false to true, and whenever forcedTerminate or finishTerminate is true  *)
(* terminate is true as well.                                              *)
(***************************************************************************)
C16_FlagsMonotonic ==
    /\ []((forcedTerminate \/ finishTerminate) => terminate)
    /\ [][/\ terminate => terminate'
          /\ forcedTerminate => forcedTerminate'
          /\ finishTerminate => finishTerminate']_vars

\* a plain stop has been handled and a forced stop of another connection has
\* set its flags after it
C16_Witness ==
    /\ terminate /\ forcedTerminate /\ ~finishTerminate
    /\ \E c, d \in Conns :
          /\ c # d
          /\ run[c].pc = "handler" /\ ~run[c].forced /\ ~run[c].finish
          /\ run[d].pc = "setFinish" /\ run[d].forced

\* the stop handler serves a stop request with forced = false and finish = false
PlainStop == stop.pc # "idle" /\ stop.keyOk /\ ~stop.forced /\ ~stop.finish

InProgressCount == Cardinality({r \in reqQ : r.state = REQ_INPROGRESS})

RowRes(drv, crt, x) ==
    resAvail(drv, crt, pools, x.op, x.reqNum, x.pool, x.driveId, x.tapeId,
             IF x.op \in TapeHandlerOps THEN MOVE ELSE MOUNT,
             IF x.op = MIGRATION THEN smallestMigJob(jobQ, x.reqNum, x.replNum) ELSE 0)

\* the MOUNTED cartridge a row would be given, and the empty drive it would be
\* given or would have a cartridge brought to
TapeTaken(res) == IF res.ok THEN {res.tapeId} ELSE {}
DriveTaken(res) ==
    IF res.ok THEN {res.driveId} ELSE {k.driveId : k \in {e \in res.enq : e.op # UNMOUNT}}

\* recall > migration > format/check > mount/move/unmount
PriorityClass(op) ==
    IF op \in RecallOps THEN 0 ELSE IF op = MIGRATION THEN 1
    ELSE IF op \in TapeHandlerOps THEN 2 ELSE 3

(***************************************************************************)
(* C18.  A pass examines its NEW requests in the order recall, migration,  *)
(* format/check, mount/move/unmount, equal operations by ascending         *)
(* reqNum; so when a recall and a lower-priority request of the pass need  *)
(* the same MOUNTED cartridge or the same empty drive, the cartridge or    *)
(* drive is reserved for the recall and the other request does not get     *)
(* it.                                                                     *)
(***************************************************************************)
C18_RecallFirst ==
    [][\A r \in schedTodo :
          (schedPc = "pass" /\ r \notin schedTodo')
          => /\ \A x \in schedTodo :
                   /\ PriorityClass(r.op) <= PriorityClass(x.op)
                   /\ r.op = x.op => r.reqNum <= x.reqNum
             /\ \A m \in schedTodo :
                   LET a == RowRes(drive, cart, r)
                       b == RowRes(drive, cart, m)
                       after == RowRes(drive', cart', m)
                   IN  (/\ r.op \in RecallOps
                        /\ PriorityClass(m.op) > 0
                        /\ \/ TapeTaken(a) \cap TapeTaken(b) # {}
                           \/ (~a.ok /\ DriveTaken(a) \cap DriveTaken(b) # {}))
                       => /\ a.ok => /\ \E x \in reqQ' : /\ x.reqNum = r.reqNum
                                                        /\ x.tapeId = r.tapeId
                                                        /\ x.state = REQ_INPROGRESS
                                     /\ cart'[r.tapeId].state = TAPE_INUSE
                                     /\ TapeTaken(after) \cap TapeTaken(a) = {}
                          /\ ~a.ok => \A d \in DriveTaken(a) :
                                         /\ drive'[d].moveReqNum = r.reqNum
                                         /\ d \notin DriveTaken(after)]_vars

\* a pass holds a recall and a migration that would both be given the same
\* MOUNTED cartridge
C18_Witness ==
    /\ schedPc = "pass"
    /\ \E r, m \in schedTodo :
          /\ r.op \in RecallOps
          /\ m.op = MIGRATION
          /\ RowRes(drive, cart, r).ok
          /\ TapeTaken(RowRes(drive, cart, r)) = TapeTaken(RowRes(drive, cart, m))

(***************************************************************************)
(* The info handlers: infoRequestsMessage, infoJobsMessage,                *)
(* infoDrivesMessage, infoTapesMessage, infoPoolsMessage.  Each fills the  *)
(* response message of the connection's command object, which keeps its    *)
(* fields from one send to the next, once per row and once for the         *)
(* sentinel.                                                               *)
(***************************************************************************)
InfoKinds == {"requests", "jobs", "drives", "tapes", "pools"}

\* the string fields of the response of each kind
StringFields(kind) ==
    IF kind = "requests" THEN {"operation", "tapeid", "targetstate", "state"}
    ELSE IF kind = "jobs" THEN {"operation", "filename", "tapeid", "state"}
    ELSE IF kind = "drives" THEN {"id", "devname", "status"}
    ELSE IF kind = "tapes" THEN {"id", "status", "pool", "state"}
    ELSE IF kind = "pools" THEN {"poolname"}
    ELSE {}

\* the numeric and boolean fields
NumericFields(kind) ==
    IF kind = "requests" THEN {"reqnumber"}
    ELSE IF kind = "jobs" THEN {"reqnumber", "replnumber", "filesize"}
    ELSE IF kind = "drives" THEN {"slot", "busy"}
    ELSE IF kind = "tapes" THEN {"slot", "totalcap", "remaincap", "inprogress"}
    ELSE IF kind = "pools" THEN {"total", "free", "unref", "numtapes"}
    ELSE {}

\* the string fields the handler sets for the sentinel: infoTapesMessage sets
\* status twice and state not at all
sentinelStrings(kind) ==
    IF kind = "tapes" THEN {"id", "status", "pool"} ELSE StringFields(kind)

\* the value the sentinel gives a numeric field
SentinelNumber(kind, f) ==
    IF kind \in {"requests", "jobs"} THEN UNSET ELSE 0

\* the strings of a row
RowStrings == {"x", "y"}

\* a response message that was never written
FreshResp(kind) ==
    [f \in StringFields(kind) \cup NumericFields(kind) |->
        IF f \in StringFields(kind) THEN "" ELSE 0]

\* the request arrives: the handler returns on a foreign key, else it reads rows
InfoMessage(kind, keyOk, n) ==
    /\ info.pc = "idle"
    /\ info' = IF keyOk
               THEN [info EXCEPT !.pc = "rows", !.kind = kind, !.rows = n, !.todo = n,
                                 !.resp = FreshResp(kind)]
               ELSE [info EXCEPT !.pc = "done", !.kind = kind, !.keyOk = FALSE]
    /\ UNCHANGED <<serverVars, globalReqNumber, connVars, start>>

\* one row: every field is set from the row and the response is sent; a
\* throwing send is traced and the loop goes on
InfoRow(v, ok) ==
    /\ info.pc = "rows"
    /\ info.todo > 0
    /\ LET r == [f \in DOMAIN info.resp |->
                    IF f \in StringFields(info.kind) THEN v ELSE 1]
       IN  info' = [info EXCEPT !.resp = r, !.todo = @ - 1,
                                !.failed = @ \/ ~ok,
                                !.out = IF ok THEN Append(@, r) ELSE @]
    /\ UNCHANGED <<serverVars, globalReqNumber, connVars, start>>

\* after the last row: the sentinel's fields are set in the same message and it
\* is sent
InfoSentinel(ok) ==
    /\ info.pc = "rows"
    /\ info.todo = 0
    /\ LET s == [f \in DOMAIN info.resp |->
                    IF f \in sentinelStrings(info.kind) THEN ""
                    ELSE IF f \in NumericFields(info.kind)
                    THEN SentinelNumber(info.kind, f)
                    ELSE info.resp[f]]
       IN  info' = [info EXCEPT !.pc = "done", !.resp = s,
                                !.failed = @ \/ ~ok,
                                !.out = IF ok THEN Append(@, s) ELSE @]
    /\ UNCHANGED <<serverVars, globalReqNumber, connVars, start>>

NextInfo ==
    \/ \E kind \in InfoKinds, keyOk \in BOOLEAN, n \in 0..MaxRows : InfoMessage(kind, keyOk, n)
    \/ \E v \in RowStrings, ok \in BOOLEAN : InfoRow(v, ok)
    \/ \E ok \in BOOLEAN : InfoSentinel(ok)

SpecInfo == Init /\ [][NextInfo]_vars

\* the string fields of the response sent last are all empty
LastIsSentinel ==
    /\ info.out # <<>>
    /\ \A f \in StringFields(info.kind) : info.out[Len(info.out)][f] = ""

(***************************************************************************)
(* C19.  An info handler whose sends all succeed has sent, when it ends,   *)
(* one response per row and then exactly one sentinel response, also when  *)
(* there are no rows; every string field of the sentinel is empty, for     *)
(* tapes both status and state.                                            *)
(***************************************************************************)
C19_RowsThenSentinel ==
    (info.pc = "done" /\ info.keyOk /\ ~info.failed)
    => /\ Len(info.out) = info.rows + 1
       /\ LastIsSentinel

\* the tapes handler has sent its rows and its last response
C19_Witness ==
    /\ info.pc = "done" /\ info.keyOk /\ ~info.failed
    /\ info.kind = "tapes"
    /\ info.rows = MaxRows
    /\ Len(info.out) = MaxRows + 1

(***************************************************************************)
(* The start command (StartCommand.cc).  result is how doCommand ends:     *)
(* "returned" when it returns, "thrown" when it leaves with                *)
(* THROW(Error::GENERAL_ERROR).                                            *)
(***************************************************************************)
\* while (retry < 10)
ConnectRetries == 10

\* the command ends at a step that goes well, goes on at pc next otherwise
StartStep(ok, next) ==
    IF ok THEN [start EXCEPT !.pc = next]
    ELSE [start EXCEPT !.pc = "done", !.result = "thrown"]

\* StartCommand::doCommand: if (argc > 1) { printUsage(); THROW }
StartDoCommand(ok) ==
    /\ start.pc = "doCommand"
    /\ start' = StartStep(ok, "determineServerPath")
    /\ UNCHANGED <<serverVars, globalReqNumber, connVars, info>>

\* StartCommand::determineServerPath: readlink of /proc/self/exe
StartDetermineServerPath(ok) ==
    /\ start.pc = "determineServerPath"
    /\ start' = StartStep(ok, "startServer")
    /\ UNCHANGED <<serverVars, globalReqNumber, connVars, info>>

\* StartCommand::startServer: stat, popen, output lines, pclose
StartServer(ok) ==
    /\ start.pc = "startServer"
    /\ start' = StartStep(ok, "connect")
    /\ UNCHANGED <<serverVars, globalReqNumber, connVars, info>>

\* the backend that was started begins to accept connections
ServerListens ==
    /\ start.pc \in {"connect", "sleep"}
    /\ ~start.listening
    /\ start' = [start EXCEPT !.listening = TRUE]
    /\ UNCHANGED <<serverVars, globalReqNumber, connVars, info>>

\* if (success == false) { MSG(LTFSDMC0096E); return; }
startGiveUp ==
    [start EXCEPT !.pc = "done", !.result = "returned"]

\* one round of while (retry < 10): connect() and success = true; break, or
\* the catch block's retry++; after the loop the test of success
StartConnect(ok) ==
    /\ start.pc = "connect"
    /\ IF start.retry < ConnectRetries
       THEN /\ (ok => start.listening)
            /\ start' = IF ok
                        THEN [start EXCEPT !.pc = "send", !.success = TRUE,
                                           !.attempts = @ + 1]
                        ELSE [start EXCEPT !.pc = "sleep", !.retry = @ + 1,
                                           !.attempts = @ + 1]
       ELSE start' = startGiveUp
    /\ UNCHANGED <<serverVars, globalReqNumber, connVars, info>>

\* sleep(1) in the catch block
StartSleep ==
    /\ start.pc = "sleep"
    /\ start' = [start EXCEPT !.pc = "connect"]
    /\ UNCHANGED <<serverVars, globalReqNumber, connVars, info>>

\* commCommand.send() of the statusrequest
StartSend(ok) ==
    /\ start.pc = "send"
    /\ start' = StartStep(ok, "recv")
    /\ UNCHANGED <<serverVars, globalReqNumber, connVars, info>>

\* commCommand.recv()
StartRecv(ok) ==
    /\ start.pc = "recv"
    /\ start' = StartStep(ok, "evaluate")
    /\ UNCHANGED <<serverVars, globalReqNumber, connVars, info>>

\* statusresp.success(): the pid is reported and doCommand returns, or THROW
StartEvaluate(ok) ==
    /\ start.pc = "evaluate"
    /\ start' = IF ok THEN [start EXCEPT !.pc = "done", !.result = "returned"]
                ELSE [start EXCEPT !.pc = "done", !.result = "thrown"]
    /\ UNCHANGED <<serverVars, globalReqNumber, connVars, info>>

NextStart ==
    \/ \E ok \in BOOLEAN : StartDoCommand(ok)
    \/ \E ok \in BOOLEAN : StartDetermineServerPath(ok)
    \/ \E ok \in BOOLEAN : StartServer(ok)
    \/ ServerListens
    \/ \E ok \in BOOLEAN : StartConnect(ok)
    \/ StartSleep
    \/ \E ok \in BOOLEAN : StartSend(ok)
    \/ \E ok \in BOOLEAN : StartRecv(ok)
    \/ \E ok \in BOOLEAN : StartEvaluate(ok)

SpecStart == Init /\ [][NextStart]_vars

(***************************************************************************)
(* C20.  The start command calls connect at most 10 times, and when all    *)
(* 10 calls have failed the command ends with a failure, never as a        *)
(* success.                                                                *)
(***************************************************************************)
C20_StartFailsAfterTenRetries ==
    /\ start.attempts <= 10
    /\ (start.pc = "done" /\ start.attempts = 10 /\ ~start.success)
          => start.result = "thrown"

\* connect has failed 10 times and the command has ended
C20_Witness ==
    /\ start.pc = "done"
    /\ start.retry = ConnectRetries
    /\ ~start.success

(***************************************************************************)
(* C21.  After a recv or send of the receive-objects loop has failed, the  *)
(* handler adds no request row, does not signal the scheduler and leaves   *)
(* the request queue, the scheduler and the inventory as they are.         *)
(***************************************************************************)
C21_CommFailureAbandonsRequest ==
    [][(conn.commFailed /\ conn' # conn)
          => /\ reqQ' = reqQ
             /\ notified' = notified
             /\ <<drive, cart, pools, subs, schedPc, schedTodo>>'
                   = <<drive, cart, pools, subs, schedPc, schedTodo>>]_vars

\* the recv of a migration's object batch has thrown and the handler has
\* called addRequest
C21_Witness ==
    /\ conn.commFailed
    /\ conn.kind = "mig"
    /\ conn.added

(***************************************************************************)
(* C22.  Once terminate is set no step of the scheduler moves a request    *)
(* from NEW to INPROGRESS or enqueues a worker or a tape motion, whether   *)
(* the scheduler was waiting or in the middle of a pass when the flag was  *)
(* set.                                                                    *)
(***************************************************************************)
C22_NoDispatchAfterTerminate ==
    [][(terminate /\ <<schedPc, schedTodo>>' # <<schedPc, schedTodo>>)
          => (reqQ' = reqQ /\ subs' = subs)]_vars

\* terminate is set in the middle of a pass that still holds a request whose
\* resources are available
C22_Witness ==
    /\ terminate
    /\ schedPc = "pass"
    /\ \E r \in schedTodo : RowRes(drive, cart, r).ok

(***************************************************************************)
(* The scheduler on an inventory in which a cartridge that is not in a     *)
(* drive may have been found INVALID or UNKNOWN.                           *)
(***************************************************************************)
\* the states the inventory gives a cartridge that is not in a drive
FoundStates == {TAPE_UNMOUNTED, TAPE_INVALID, TAPE_UNKNOWN}

InitInv ==
    /\ InitCommon
    /\ \E f \in Placements, bad \in Tapes, st \in FoundStates :
          cart = [t \in Tapes |->
                    [state |-> IF f[t] # EmptyId THEN TAPE_MOUNTED
                               ELSE IF t = bad THEN st ELSE TAPE_UNMOUNTED,
                     slot |-> IF f[t] = EmptyId THEN HomeSlot(t) ELSE DriveSlot(f[t]),
                     requested |-> FALSE,
                     remaining_cap |-> InitCap(t)]]

SpecInv == InitInv /\ [][Next]_vars

\* the pass examines row r in this step and resAvail returns false for it
ReturnsFalse(r) ==
    /\ schedPc = "pass"
    /\ r \in schedTodo
    /\ r \notin schedTodo'
    /\ schedPc' # "aborted"
    /\ ~RowRes(drive, cart, r).ok

\* what a step changes in the inventory
MoveReqChanged ==
    {d \in Drives : <<drive'[d].moveReqNum, drive'[d].moveReqPool>>
                       # <<drive[d].moveReqNum, drive[d].moveReqPool>>}
ToUnblockChanged == {d \in Drives : drive'[d].toUnblock # drive[d].toUnblock}
RequestedChanged == {t \in Tapes : cart'[t].requested # cart[t].requested}

\* the row is left as it is, nothing but tape motions is enqueued, no drive
\* becomes busy and no cartridge changes state or slot
FalseLeavesRow(r) ==
    /\ reqQ' = reqQ
    /\ \A k \in subs' \ subs : k.kind = "add"
    /\ subs \subseteq subs'
    /\ \A d \in Drives : drive'[d].busy = drive[d].busy
    /\ \A t \in Tapes : cart'[t].state = cart[t].state /\ cart'[t].slot = cart[t].slot

\* a step that sets a move-request of row r on at most one drive
OneMoveReq(r) ==
    /\ Cardinality(MoveReqChanged) <= 1
    /\ \A d \in MoveReqChanged :
          drive'[d].moveReqNum = r.reqNum /\ drive'[d].moveReqPool = r.pool
    /\ Cardinality(subs' \ subs) = Cardinality(MoveReqChanged)
    /\ ToUnblockChanged = {}

\* a step that changes one drive's toUnblock and sets the requested flag of the
\* cartridge row r wants, or neither
OneSuspend(r) ==
    /\ MoveReqChanged = {}
    /\ subs' = subs
    /\ Cardinality(ToUnblockChanged) <= 1
    /\ RequestedChanged = IF ToUnblockChanged = {} THEN {} ELSE {r.tapeId}

Examines(r) ==
    /\ schedPc = "pass"
    /\ r \in schedTodo
    /\ r \notin schedTodo'
    /\ schedPc' # "aborted"

\* resAvail sends row r to tapeResAvail, or to poolResAvail
ToTapeResAvail(r) == r.op \notin TapeMoveOps /\ ~(r.op = MIGRATION /\ r.tapeId = EmptyId)
ToPoolResAvail(r) == r.op = MIGRATION /\ r.tapeId = EmptyId

\* the UNMOUNT motions a step enqueues
UnmountsEnqueued == {k \in subs' \ subs : k.kind = "add" /\ k.op = UNMOUNT}

(***************************************************************************)
(* C24.  tapeResAvail enqueues an UNMOUNT only when no usable drive has an *)
(* empty slot: while some usable drive has an empty slot no cartridge is   *)
(* unmounted for the request, whatever the state of the wanted cartridge.  *)
(***************************************************************************)
C24_UnmountOnlyWithoutEmptyDrive ==
    [][\A r \in schedTodo :
          (/\ Examines(r)
           /\ ToTapeResAvail(r)
           /\ FreeDrives(drive, cart, r.reqNum, r.pool) # {})
          => UnmountsEnqueued = {}]_vars

\* a recall for a cartridge that is neither UNMOUNTED nor in a drive is
\* examined while one usable drive is empty and another holds an idle cartridge
C24_Witness ==
    /\ schedPc = "pass"
    /\ \E r \in schedTodo :
          /\ \A x \in schedTodo : Before(r, x)
          /\ ToTapeResAvail(r)
          /\ cart[r.tapeId].state \in {TAPE_INVALID, TAPE_UNKNOWN}
          /\ FreeDrives(drive, cart, r.reqNum, r.pool) # {}
          /\ LoadedDrives(drive, cart, r.reqNum, r.pool) # {}

\* the cartridges whose requested flag a step sets
RequestedSet == {t \in Tapes : cart'[t].requested /\ ~cart[t].requested}

(***************************************************************************)
(* C25.  tapeResAvail never raises toUnblock: one call changes at most one *)
(* drive's toUnblock, only to the operation of the request and only when   *)
(* that operation is strictly smaller than the old value; it sets the      *)
(* requested flag of the wanted cartridge exactly when it makes such a     *)
(* change; and while that flag is true a call for the cartridge changes no *)
(* drive's toUnblock.                                                      *)
(***************************************************************************)
C25_ToUnblockOnlyLowered ==
    [][\A r \in schedTodo :
          (Examines(r) /\ ToTapeResAvail(r))
          => /\ Cardinality(ToUnblockChanged) <= 1
             /\ \A d \in ToUnblockChanged :
                   drive'[d].toUnblock = r.op /\ r.op < drive[d].toUnblock
             /\ RequestedSet = (IF ToUnblockChanged = {} THEN {} ELSE {r.tapeId})
             /\ cart[r.tapeId].requested => ToUnblockChanged = {}]_vars

\* a drive's toUnblock has been lowered to the operation of a pending request
\* whose cartridge is requested, and the pass examines that request again
C25_Witness ==
    /\ schedPc = "pass"
    /\ \E r \in schedTodo :
          /\ ToTapeResAvail(r)
          /\ cart[r.tapeId].requested
          /\ \E d \in Drives : drive[d].toUnblock = r.op
          /\ FreeDrives(drive, cart, r.reqNum, r.pool) = {}
          /\ LoadedDrives(drive, cart, r.reqNum, r.pool) = {}

(***************************************************************************)
(* Selective recalls of one tape each and migrations to one pool each,     *)
(* from up to three clients, with the scheduler, the tape movers and the   *)
(* workers.                                                                *)
(***************************************************************************)
MaxPoolReqs == 3

MayAdmitPool == Cardinality(ClientReqNums) < MaxPoolReqs

NextPool ==
    \/ \E t \in Tapes : MayAdmitPool /\ SelRecallAddRequest(SELRECALL, {t})
    \/ \E p \in StockedPools, size \in FileSizes :
          MayAdmitPool /\ MigrationAddRequest({p}, size)
    \/ SchedWake
    \/ \E r \in schedTodo : SchedExamine(r)
    \/ \E k \in subs : MayMove /\ TapeMoverAddRequest(k)
    \/ \E k \in subs : TapeMoverStart(k)
    \/ \E k \in subs : TapeMoverDone(k)
    \/ \E k \in subs : WorkerDone(k)

SpecPool == Init /\ [][NextPool]_vars

\* the pass takes row r, whether resAvail returns or stops at an assert
Takes(r) == schedPc = "pass" /\ r \in schedTodo /\ r \notin schedTodo'

\* the workers a step dispatches
Dispatched == {k \in subs' \ subs : k.kind = "exec"}

\* some cartridge of the pool of row r is MOUNTED with room for its smallest file
PoolHasReady(r) ==
    \E t \in pools[r.pool] \cap Tapes :
        /\ cart[t].state = TAPE_MOUNTED
        /\ HasRoom(cart, t, smallestMigJob(jobQ, r.reqNum, r.replNum))

(***************************************************************************)
(* C26.  poolResAvail returns true exactly when some cartridge of the pool *)
(* is MOUNTED with remaining capacity (megabytes times 1024 * 1024) of at  *)
(* least minFileSize; it then marks that cartridge INUSE and the drive in  *)
(* its slot busy and records them as the request's tapeId and driveId; the *)
(* reserved cartridge belongs to the pool and has room.                    *)
(***************************************************************************)
C26_PoolReservesMountedWithRoom ==
    [][\A r \in schedTodo :
          (Takes(r) /\ ToPoolResAvail(r))
          => /\ (Dispatched # {}) = PoolHasReady(r)
             /\ \A k \in Dispatched :
                   /\ k.tapeId \in pools[r.pool]
                   /\ cart[k.tapeId].state = TAPE_MOUNTED
                   /\ HasRoom(cart, k.tapeId, smallestMigJob(jobQ, r.reqNum, r.replNum))
                   /\ cart'[k.tapeId].state = TAPE_INUSE
                   /\ DriveSlot(k.driveId) = cart[k.tapeId].slot
                   /\ drive'[k.driveId].busy
                   /\ \E x \in reqQ' :
                         /\ x.reqNum = r.reqNum /\ x.pool = r.pool
                         /\ x.state = REQ_INPROGRESS /\ x.tapeId = k.tapeId]_vars

\* a migration is examined while a cartridge of its pool is MOUNTED with room
C26_Witness ==
    /\ schedPc = "pass"
    /\ \E r \in schedTodo : ToPoolResAvail(r) /\ PoolHasReady(r)

(***************************************************************************)
(* C27.  Every cartridge for which poolResAvail enqueues an UNMOUNT is     *)
(* MOUNTED in a usable drive and is not a member of the requesting pool.   *)
(***************************************************************************)
C27_PoolUnmountsForeignCartridge ==
    [][\A r \in schedTodo :
          (Examines(r) /\ ToPoolResAvail(r))
          => \A k \in UnmountsEnqueued :
                /\ cart[k.tapeId].state = TAPE_MOUNTED
                /\ cart[k.tapeId].slot = DriveSlot(k.driveId)
                /\ driveIsUsable(drive, k.driveId, r.reqNum, r.pool)
                /\ k.tapeId \notin pools[r.pool]]_vars

\* a migration is examined while a cartridge of its pool is UNMOUNTED, no
\* cartridge of the pool is MOUNTED with room, no usable drive is empty and a
\* usable drive holds a MOUNTED cartridge
C27_Witness ==
    /\ schedPc = "pass"
    /\ \E r \in schedTodo :
          /\ \A x \in schedTodo : Before(r, x)
          /\ ToPoolResAvail(r)
          /\ ~PoolHasReady(r)
          /\ \E t \in pools[r.pool] \cap Tapes : cart[t].state = TAPE_UNMOUNTED
          /\ FreeDrives(drive, cart, r.reqNum, r.pool) = {}
          /\ ~requestExists(drive, r.reqNum, r.pool)
          /\ LoadedDrives(drive, cart, r.reqNum, r.pool) # {}

\* the condition under which the motion of row r can start
MoveCanStart(r) ==
    /\ ~drive[r.driveId].busy
    /\ IF r.op = MOUNT \/ r.op = MOVE
       THEN \A t \in Tapes : ~(cart[t].slot = DriveSlot(r.driveId) /\ cart[t].state = TAPE_MOUNTED)
       ELSE cart[r.tapeId].slot = DriveSlot(r.driveId) /\ cart[r.tapeId].state = TAPE_MOUNTED

(***************************************************************************)
(* C28.  resAvailTapeMove returns true exactly when the drive is not busy  *)
(* and, for MOUNT and MOVE, no cartridge is MOUNTED in the drive's slot,   *)
(* for UNMOUNT, the target cartridge is MOUNTED in that slot; on true it   *)
(* marks the drive busy and the cartridge INUSE, on false it changes       *)
(* nothing.                                                                *)
(***************************************************************************)
C28_TapeMoveAvail ==
    [][\A r \in schedTodo :
          (Takes(r) /\ r.op \in TapeMoveOps)
          => /\ (Dispatched # {}) = MoveCanStart(r)
             /\ MoveCanStart(r) =>
                   /\ drive' = [drive EXCEPT ![r.driveId].busy = TRUE]
                   /\ cart' = [cart EXCEPT ![r.tapeId].state = TAPE_INUSE]
             /\ ~MoveCanStart(r) =>
                   <<drive, cart, reqQ, subs>>' = <<drive, cart, reqQ, subs>>]_vars

\* one tape motion has been dispatched and the pass holds another whose
\* drive is busy
C28_Witness ==
    /\ schedPc = "pass"
    /\ \E k \in subs : k.kind = "exec" /\ k.op \in TapeMoveOps
    /\ \E r \in schedTodo : r.op \in TapeMoveOps /\ drive[r.driveId].busy

\* the drives on which a step sets a move-request
MoveReqSet == {d \in MoveReqChanged : drive'[d].moveReqNum # UNSET}

(***************************************************************************)
(* C29.  The scheduler never sets a move-request on a drive that is busy   *)
(* or that already has a pending move-request of a different               *)
(* (reqNum, pool).                                                         *)
(***************************************************************************)
C29_MoveReqOnlyOnUsableDrive ==
    [][\A d \in MoveReqSet : ~drive[d].busy /\ drive[d].moveReqNum = UNSET]_vars

\* a motion is pending on one drive for one request, the other drive is busy,
\* and the pass holds a request that needs a drive
C29_Witness ==
    /\ schedPc = "pass"
    /\ \E d1, d2 \in Drives :
          /\ drive[d1].moveReqNum # UNSET
          /\ drive[d2].busy
          /\ \E r \in schedTodo :
                /\ r.op \notin TapeMoveOps
                /\ ~(drive[d1].moveReqNum = r.reqNum /\ drive[d1].moveReqPool = r.pool)
                /\ ~RowRes(drive, cart, r).ok

\* the tape motions a step enqueues
MotionsEnqueued == {k \in subs' \ subs : k.kind = "add"}

(***************************************************************************)
(* C30.  While a motion enqueued for (reqNum, pool) is pending, a later    *)
(* examination of the same request enqueues no second motion: it leaves    *)
(* every drive's move-request fields and the enqueued motions unchanged.   *)
(***************************************************************************)
C30_NoSecondMotion ==
    [][\A r \in schedTodo :
          (/\ Examines(r)
           /\ r.op \notin TapeMoveOps
           /\ \E d \in Drives :
                 drive[d].moveReqNum = r.reqNum /\ drive[d].moveReqPool = r.pool)
          => MoveReqChanged = {} /\ MotionsEnqueued = {}]_vars

\* a request with a pending motion is examined again while an empty usable
\* drive or a usable drive with an idle cartridge would allow another motion
C30_Witness ==
    /\ schedPc = "pass"
    /\ \E r \in schedTodo :
          /\ \A x \in schedTodo : Before(r, x)
          /\ r.op \notin TapeMoveOps
          /\ requestExists(drive, r.reqNum, r.pool)
          /\ ~RowRes(drive, cart, r).ok
          /\ \/ FreeDrives(drive, cart, r.reqNum, r.pool) # {}
             \/ LoadedDrives(drive, cart, r.reqNum, r.pool) # {}

(***************************************************************************)
(* Selective recalls of one tape each from up to four clients, with the    *)
(* scheduler, the tape movers and the recall workers.                      *)
(***************************************************************************)
MaxPassReqs == 4

MayAdmitPass == Cardinality(ClientReqNums) < MaxPassReqs

NextPass ==
    \/ \E t \in Tapes : MayAdmitPass /\ SelRecallAddRequest(SELRECALL, {t})
    \/ SchedWake
    \/ \E r \in schedTodo : SchedExamine(r)
    \/ \E k \in subs : MayMove /\ TapeMoverAddRequest(k)
    \/ \E k \in subs : TapeMoverStart(k)
    \/ \E k \in subs : TapeMoverDone(k)
    \/ \E k \in subs : WorkerDone(k)

SpecPass == Init /\ [][NextPass]_vars

\* row r as it stands in the request queue after the step
RowAfter(r) ==
    {x \in reqQ' : /\ x.op = r.op /\ x.reqNum = r.reqNum
                   /\ x.replNum = r.replNum /\ x.pool = r.pool
                   /\ (r.tapeId = EmptyId \/ x.tapeId = r.tapeId)}

(***************************************************************************)
(* C31.  In one scheduler pass every request that is NEW when the pass     *)
(* reads it is examined: a request that cannot be reserved does not end    *)
(* the pass, the pass ends only with no row left, and a row whose          *)
(* resources are free when its turn comes is set INPROGRESS in that pass.  *)
(***************************************************************************)
C31_PassExaminesEveryRow ==
    [][/\ (schedPc = "pass" /\ schedPc' # "pass") => schedTodo' = {}
       /\ \A r \in schedTodo :
             (Examines(r) /\ RowRes(drive, cart, r).ok)
             => \E x \in RowAfter(r) : x.state = REQ_INPROGRESS]_vars

\* the pass holds a request that cannot be reserved and, behind it, a
\* request of lower priority whose resources are free
C31_Witness ==
    /\ schedPc = "pass"
    /\ \E r1, r2 \in schedTodo :
          /\ r1 # r2
          /\ \A x \in schedTodo : Before(r1, x)
          /\ r1.op < r2.op
          /\ ~RowRes(drive, cart, r1).ok
          /\ RowRes(drive, cart, r2).ok
          /\ RowRes(RowRes(drive, cart, r1).drive, RowRes(drive, cart, r1).cart, r2).ok

\* one batch, one acknowledgement: between batches as many acknowledgements
\* as batches, with a batch at hand one less; no batch is read once an empty
\* name was seen
Lockstep ==
    /\ conn.pc = "recv" => conn.acks = conn.batches /\ conn.cont
    /\ conn.pc \in {"files", "ack"} => conn.acks + 1 = conn.batches

\* inside the while (cont) loop of getObjects the request has no row yet
AddedAfterLoop ==
    conn.pc \in {"recv", "files", "ack"}
    => ~conn.added /\ \A r \in reqQ : r.reqNum # conn.reqNum

StopCommandSend(ok) ==
    /\ stop.cpc = "send"
    /\ stop.creqs < MaxStopPolls
    /\ stop' = IF ok
               THEN [stop EXCEPT !.cpc = "recv", !.creqs = @ + 1]
               ELSE [stop EXCEPT !.cpc = "failed"]
    /\ UNCHANGED <<invVars, reqQ, jobQ, subs, globalReqNumber, schedVars, notified,
                   termVars, conn, waited, connVars, info, start>>

\* commCommand.recv(); finished = stopresp.success(); sleep(1) and once more,
\* or break.  recv throws when the handler has closed the connection
StopCommandRecv(ok) ==
    /\ stop.cpc = "recv"
    /\ IF ok
       THEN /\ stop.cread < Len(stop.replies)
            /\ stop' = [stop EXCEPT !.cread = @ + 1,
                                    !.cpc = IF stop.replies[stop.cread + 1]
                                            THEN "lock" ELSE "send"]
       ELSE stop' = [stop EXCEPT !.cpc = "failed"]
    /\ UNCHANGED <<invVars, reqQ, jobQ, subs, globalReqNumber, schedVars, notified,
                   termVars, conn, waited, connVars, info, start>>

\* open the server lock file and flock it once the server has let go of it
StopCommandLock ==
    /\ stop.cpc = "lock"
    /\ stop.pc = "done"
    /\ stop' = [stop EXCEPT !.cpc = "unlocked"]
    /\ UNCHANGED <<invVars, reqQ, jobQ, subs, globalReqNumber, schedVars, notified,
                   termVars, conn, waited, connVars, info, start>>

\* a stop request of the client is on the connection
StopRequestSent == stop.creqs > stop.reads

NextStopCmd ==
    \/ \E op \in RecallOps, ts \in (SUBSET Tapes) \ {{}} :
          MayAdmitStop /\ SelRecallAddRequest(op, ts)
    \/ SchedWake
    \/ \E r \in schedTodo : SchedExamine(r)
    \/ \E k \in subs : MayMove /\ TapeMoverAddRequest(k)
    \/ \E k \in subs : TapeMoverStart(k)
    \/ \E k \in subs : TapeMoverDone(k)
    \/ \E k \in subs : WorkerDone(k)
    \/ \E ok \in BOOLEAN : StopCommandSend(ok)
    \/ \E ok \in BOOLEAN : StopCommandRecv(ok)
    \/ StopCommandLock
    \/ \E forced \in BOOLEAN : StopRequestSent /\ StopMessage(TRUE, forced, FALSE)
    \/ StopCount
    \/ \E ok \in BOOLEAN : StopSend(ok)
    \/ \E ok \in BOOLEAN : (ok => StopRequestSent) /\ StopRecv(ok)
    \/ StopNotify

SpecStopCmd == Init /\ [][NextStopCmd]_vars

\* the replies with success = false among the first n
FalseReplies(n) == Cardinality({i \in 1..n : ~stop.replies[i]})

C36_MountedInIdleDrive ==
    \A t \in Tapes :
        cart[t].state = TAPE_MOUNTED
        => \E d \in Drives : DriveSlot(d) = cart[t].slot /\ ~drive[d].busy

\* a worker that used a cartridge has finished and left it MOUNTED in a drive
C36_Witness ==
    /\ \E r \in reqQ : r.op \in RecallOps /\ r.state = REQ_COMPLETED
    /\ \E t \in Tapes, d \in Drives :
          cart[t].state = TAPE_MOUNTED /\ DriveSlot(d) = cart[t].slot

(***************************************************************************)
(* C39.  A drive is reserved by at most one dispatched task at a time: the *)
(* scheduler never marks busy a drive that is already busy, so two         *)
(* unfinished workers or tape movers never hold the same drive.            *)
(***************************************************************************)
C39_DriveReservedOnce ==
    \A k1, k2 \in subs :
        (k1.kind = "exec" /\ k2.kind = "exec" /\ k1.driveId = k2.driveId) => k1 = k2

\* both drives are reserved, each by one dispatched task
C39_Witness ==
    /\ \A d \in Drives : drive[d].busy
    /\ \A d \in Drives : \E k \in subs : k.kind = "exec" /\ k.driveId = d

(***************************************************************************)
(* C38.  Once a stop message has set terminate, the scheduler is notified  *)
(* and SIGUSR1 is raised on every path of the stop handler: the handler    *)
(* never returns, terminate set, without having done both, also when a     *)
(* send or a receive failed while it was polling.                          *)
(***************************************************************************)
C38_StopAlwaysNotifies ==
    (terminate /\ stop.pc = "done") => (stop.notifies > 0 /\ stop.sigusr1)

\* the handler has set terminate, polled more than once and returned
C38_Witness ==
    terminate /\ stop.pc = "done" /\ Len(stop.replies) > 1

(***************************************************************************)
(* A pool that lists a tape id the inventory does not contain: migrations  *)
(* to one pool each, with the scheduler, the tape movers and the workers.  *)
(***************************************************************************)
MaxGhostReqs == 2

\* a tape id for which the inventory holds no cartridge
GhostTape == NumTapes + 1

InitGhost ==
    /\ InitServer
    /\ \E p \in {"a", "b"} : pools = [InitPools EXCEPT ![p] = @ \cup {GhostTape}]
    /\ \E f \in Placements :
          cart = [t \in Tapes |->
                    [state |-> IF f[t] = EmptyId THEN TAPE_UNMOUNTED ELSE TAPE_MOUNTED,
                     slot |-> IF f[t] = EmptyId THEN HomeSlot(t) ELSE DriveSlot(f[t]),
                     requested |-> FALSE,
                     remaining_cap |-> InitCap(t)]]

MayAdmitGhost == Cardinality(ClientReqNums) < MaxGhostReqs

NextGhost ==
    \/ \E p \in StockedPools, size \in FileSizes :
          MayAdmitGhost /\ MigrationAddRequest({p}, size)
    \/ SchedWake
    \/ \E r \in schedTodo : SchedExamine(r)
    \/ \E k \in subs : MayMove /\ TapeMoverAddRequest(k)
    \/ \E k \in subs : TapeMoverStart(k)
    \/ \E k \in subs : TapeMoverDone(k)
    \/ \E k \in subs : WorkerDone(k)

SpecGhost == InitGhost /\ [][NextGhost]_vars

(***************************************************************************)
(* C37.  If a pool lists a tape id the inventory does not contain,         *)
(* poolResAvail removes the id from the pool and never reads the state or  *)
(* the capacity of the missing cartridge: the step that removes the id     *)
(* does not end the scheduler, and a pass that found no MOUNTED cartridge  *)
(* with room leaves only known cartridges in the pool.                     *)
(***************************************************************************)
C37_MissingCartridgeSkipped ==
    [][\A r \in schedTodo :
          (Takes(r) /\ ToPoolResAvail(r) /\ MissingCartridges(pools, r.pool) # {})
          => /\ pools' # pools => schedPc' # "aborted"
             /\ ~PoolHasReady(r) => MissingCartridges(pools', r.pool) = {}]_vars

\* a pass has removed the missing tape id from its pool and gone on
C37_Witness ==
    /\ schedPc # "aborted"
    /\ \A p \in PoolNames : MissingCartridges(pools, p) = {}
    /\ \E r \in reqQ : r.op = MIGRATION

(***************************************************************************)
(* The scheduler's mutex and the inventory lock: Scheduler::run, the       *)
(* callers of Scheduler::invoke and the stop handler, thread by thread.    *)
(***************************************************************************)
otherVars == <<drive, cart, pools, reqQ, jobQ, subs, globalReqNumber, schedPc,
               schedTodo, notified, terminate, forcedTerminate, finishTerminate,
               stop, conn, waited, run, termmtx, returned, info, start>>

\* a pass is running: the scheduler thread holds Scheduler::mtx
InPass == sync.sched \in {"top", "row", "locked"}

\* std::unique_lock<std::mutex> lock(mtx) at the start of Scheduler::run
SyncSchedStart ==
    /\ sync.sched = "start"
    /\ sync.mtx = NoThread
    /\ sync' = [sync EXCEPT !.sched = "top", !.mtx = SchedThread]
    /\ UNCHANGED otherVars

\* cond.wait(lock): the mutex is released while the thread waits
SyncSchedWait ==
    /\ sync.sched = "top"
    /\ sync' = [sync EXCEPT !.sched = "waiting", !.mtx = NoThread]
    /\ UNCHANGED otherVars

\* cond.wait has no predicate: it may return without a notification
SyncSchedSpurious ==
    /\ sync.sched = "waiting"
    /\ sync' = [sync EXCEPT !.sched = "woken"]
    /\ UNCHANGED otherVars

\* cond.wait returns with the mutex; on terminate unlock and leave the loop,
\* else read the NEW rows
SyncSchedReacquire ==
    /\ sync.sched = "woken"
    /\ sync.mtx = NoThread
    /\ LET new == {h \in Handlers : sync.rows[h] = "new"}
       IN  sync' = IF sync.term
                   THEN [sync EXCEPT !.sched = "drain"]
                   ELSE [sync EXCEPT !.mtx = SchedThread, !.todo = new,
                                     !.sched = IF new = {} THEN "top" ELSE "row"]
    /\ UNCHANGED otherVars

\* std::lock_guard<std::recursive_mutex> lock(LTFSDMInventory::mtx) for a row
SyncSchedLockInventory ==
    /\ sync.sched = "row"
    /\ sync.invmtx = NoThread
    /\ sync' = [sync EXCEPT !.sched = "locked", !.invmtx = SchedThread]
    /\ UNCHANGED otherVars

\* the row is examined, dispatched to a worker or not, and the inventory lock
\* released at the end of the iteration
SyncSchedExamine(h, dispatch) ==
    /\ sync.sched = "locked"
    /\ h \in sync.todo
    /\ dispatch => sync.pc[WorkerOf(h)] = "none"
    /\ sync' = [sync EXCEPT
                  !.rows[h] = "examined",
                  !.pc[WorkerOf(h)] = IF dispatch THEN "running" ELSE @,
                  !.invmtx = NoThread,
                  !.todo = @ \ {h},
                  !.sched = IF sync.todo = {h} THEN "top" ELSE "row"]
    /\ UNCHANGED otherVars

\* subs.waitAllRemaining(): returns when every enqueued task has ended
SyncSchedDrain ==
    /\ sync.sched = "drain"
    /\ \A w \in Workers : sync.pc[w] \in {"none", "done"}
    /\ sync' = [sync EXCEPT !.sched = "carts"]
    /\ UNCHANGED otherVars

\* cart->cond.notify_one() for every cartridge, then Scheduler::run returns
SyncSchedNotifyCarts ==
    /\ sync.sched = "carts"
    /\ sync' = [sync EXCEPT
                  !.sched = "returned",
                  !.pc = [t \in Invokers |-> IF sync.pc[t] = "suspended" THEN "running"
                                             ELSE sync.pc[t]]]
    /\ UNCHANGED otherVars

\* a connection handler adds its request to the queue and goes on to invoke
SyncInsert(h) ==
    /\ sync.pc[h] = "idle"
    /\ sync' = [sync EXCEPT !.rows[h] = "new", !.pc[h] = "invoke",
                            !.late = IF InPass THEN @ \cup {h} ELSE @]
    /\ UNCHANGED otherVars

\* Scheduler::invoke that notifies without taking Scheduler::mtx
SyncInvokeLockSkipped(t) ==
    /\ sync.pc[t] = "invoke"
    /\ sync' = [sync EXCEPT !.pc[t] = "notify"]
    /\ UNCHANGED otherVars

\* Scheduler::invoke: std::unique_lock<std::mutex> lock(Scheduler::mtx)
SyncInvokeLock(t) ==
    /\ sync.pc[t] = "invoke"
    /\ sync.mtx = NoThread
    /\ sync' = [sync EXCEPT !.pc[t] = "notify", !.mtx = t]
    /\ UNCHANGED otherVars

\* Scheduler::cond.notify_one() and the end of the lock's scope: a waiting
\* scheduler thread is woken, any other loses the notification
SyncInvokeNotify(t) ==
    /\ sync.pc[t] = "notify"
    /\ sync' = [sync EXCEPT
                  !.pc[t] = "done",
                  !.mtx = IF @ = t THEN NoThread ELSE @,
                  !.sched = IF @ = "waiting" THEN "woken" ELSE @,
                  !.early = IF sync.sched = "start" /\ t \in Handlers THEN @ \cup {t} ELSE @]
    /\ UNCHANGED otherVars

\* the stop handler has sent success = true: terminate has been set and it goes
\* on to notify the scheduler
SyncStopTerminate ==
    /\ sync.pc[StopHandler] = "idle"
    /\ sync' = [sync EXCEPT !.term = TRUE, !.pc[StopHandler] = "invoke"]
    /\ UNCHANGED otherVars

\* a preempted worker waits on the condition variable of its cartridge
SyncWorkerSuspend(w) ==
    /\ sync.pc[w] = "running"
    /\ ~sync.term
    /\ sync' = [sync EXCEPT !.pc[w] = "suspended"]
    /\ UNCHANGED otherVars

\* the worker that preempted it has ended and notifies the cartridge
SyncWorkerUnblock(w) ==
    /\ sync.pc[w] = "suspended"
    /\ \E v \in Workers \ {w} : sync.pc[v] = "done"
    /\ sync' = [sync EXCEPT !.pc[w] = "running"]
    /\ UNCHANGED otherVars

\* a worker ends: it takes the inventory lock to free its drive and cartridge
SyncWorkerLockInventory(w) ==
    /\ sync.pc[w] = "running"
    /\ sync.invmtx = NoThread
    /\ sync' = [sync EXCEPT !.pc[w] = "update", !.invmtx = w]
    /\ UNCHANGED otherVars

\* a worker that calls Scheduler::invoke before it releases the inventory lock
SyncWorkerInvokeLocked(w) ==
    /\ sync.pc[w] = "update"
    /\ sync' = [sync EXCEPT !.pc[w] = "invoke"]
    /\ UNCHANGED otherVars

\* the worker releases the inventory lock and goes on to invoke
SyncWorkerUnlockInventory(w) ==
    /\ sync.pc[w] = "update"
    /\ sync' = [sync EXCEPT !.pc[w] = "invoke", !.invmtx = NoThread]
    /\ UNCHANGED otherVars

SchedNext ==
    \/ SyncSchedStart
    \/ SyncSchedWait
    \/ SyncSchedReacquire
    \/ SyncSchedLockInventory
    \/ \E h \in Handlers, dispatch \in BOOLEAN : SyncSchedExamine(h, dispatch)
    \/ SyncSchedDrain
    \/ SyncSchedNotifyCarts

NextSync ==
    \/ SchedNext
    \/ SyncSchedSpurious
    \/ \E h \in Handlers : SyncInsert(h)
    \/ \E t \in Invokers : SyncInvokeLock(t)
    \/ \E t \in Invokers : SyncInvokeNotify(t)
    \/ SyncStopTerminate
    \/ \E w \in Workers : SyncWorkerSuspend(w)
    \/ \E w \in Workers : SyncWorkerUnblock(w)
    \/ \E w \in Workers : SyncWorkerLockInventory(w)
    \/ \E w \in Workers : SyncWorkerUnlockInventory(w)

SpecSync == Init /\ [][NextSync]_vars

C35_NoLostWakeup ==
    (sync.sched = "waiting" /\ ~sync.term)
    => \A h \in Handlers \ sync.early :
          sync.pc[h] = "done" => sync.rows[h] = "examined"

\* a row inserted during a pass has been examined by a later pass, and the
\* scheduler waits again
C35_Witness ==
    /\ sync.sched = "waiting"
    /\ ~sync.term
    /\ \E h \in sync.late : sync.pc[h] = "done" /\ sync.rows[h] = "examined"

(***************************************************************************)
(* Scheduling: the scheduler thread runs on when it can, a thread that can *)
(* take a lock takes it, a notified thread goes on.  Nothing makes a       *)
(* worker suspend or a client send a request.                              *)
(***************************************************************************)
FairSync ==
    /\ WF_vars(SchedNext)
    /\ \A t \in Invokers : WF_vars(SyncInvokeLock(t)) /\ WF_vars(SyncInvokeNotify(t))
    /\ \A w \in Workers :
          /\ WF_vars(SyncWorkerLockInventory(w))
          /\ WF_vars(SyncWorkerUnlockInventory(w))
          /\ WF_vars(SyncWorkerUnblock(w))

SpecSyncFair == Init /\ [][NextSync]_vars /\ FairSync

(***************************************************************************)
(* C40.  After terminate is set and the scheduler thread notified, the     *)
(* thread leaves its loop, waits for every enqueued task, notifies every   *)
(* cartridge's condition variable, and Scheduler::run eventually returns,  *)
(* whether the workers are running or suspended on a cartridge's condition *)
(* variable.                                                               *)
(***************************************************************************)
C40_RunReturns ==
    (sync.term /\ sync.sched = "woken") ~> (sync.sched = "returned")

\* Scheduler::run has returned after it waited for a dispatched worker
C40_Witness ==
    /\ sync.term
    /\ sync.sched = "returned"
    /\ \E w \in Workers : sync.pc[w] = "done"

====
